---------------------------- MODULE Spec2Model ----------------------------
(***************************************************************************)
(* GalaxyTrader MK3 bug-report tool: the single-pass log analysis          *)
(* (tools/gt_bug_report.py, analyze_log) and the helpers it uses from      *)
(* tools/gt_log_utils.py.                                                  *)
(*                                                                         *)
(* A log line is a sequence of tokens.  A token stands for one lexical     *)
(* fragment that the compiled patterns of the tool look for; every         *)
(* pattern of the source is a predicate over the token sequence.           *)
(* Timestamps are whole seconds (the source parses them as floats).        *)
(***************************************************************************)
EXTENDS Integers, Sequences, FiniteSets, TLC

(***************************************************************************)
(* Python values                                                           *)
(***************************************************************************)
\* Optional values: None is the empty tuple, a present value x is <<x>>.
None == << >>
Some(x) == << x >>
IsNone(o) == o = << >>
Val(o) == o[1]

\* "x or 0.0" for an optional number: None and 0.0 are both falsy.
OrZero(o) == IF IsNone(o) THEN 0 ELSE Val(o)

\* Truthiness of an optional float: "if ts" is false for None and for 0.0.
Truthy(o) == (~IsNone(o)) /\ Val(o) # 0

Max(a, b) == IF a >= b THEN a ELSE b

\* collections.Counter: c[k] += 1 (a missing key counts as 0).
CounterGet(c, k) == IF k \in DOMAIN c THEN c[k] ELSE 0
CounterInc(c, k) ==
    IF k \in DOMAIN c THEN [c EXCEPT ![k] = @ + 1] ELSE c @@ (k :> 1)

\* dict[k] = v
DictSet(d, k, v) ==
    IF k \in DOMAIN d THEN [d EXCEPT ![k] = v] ELSE d @@ (k :> v)

\* defaultdict(list)[k].append(v)
ListDictAppend(d, k, v) ==
    IF k \in DOMAIN d THEN [d EXCEPT ![k] = Append(@, v)] ELSE d @@ (k :> << v >>)

EmptyMap == [k \in {} |-> 0]

RECURSIVE SumValues(_)
SumValues(c) ==
    IF DOMAIN c = {} THEN 0
    ELSE LET k == CHOOSE x \in DOMAIN c : TRUE
         IN  c[k] + SumValues([x \in DOMAIN c \ {k} |-> c[x]])

(***************************************************************************)
(* Tokens                                                                  *)
(***************************************************************************)
Tok(k, n, s, money, cost) ==
    [k |-> k, n |-> n, s |-> s, money |-> money, cost |-> cost]

\* "[Scripts] <n>.00 ***": the timestamp marker RE_TS_FLOAT looks for.
TS(n) == Tok("ts", n, "", << >>, << >>)
\* A literal fragment of text.
Lit(s) == Tok("lit", 0, s, << >>, << >>)
\* Trailing white space (the line terminator included).
WS == Tok("ws", 0, "", << >>, << >>)
\* The four forms a ship ID takes in a line.
SidGTAI(s) == Tok("sid_gtai", 0, s, << >>, << >>)    \* "[GT-AI] ABC-123"
SidParen(s) == Tok("sid_paren", 0, s, << >>, << >>)  \* "(ABC-123)"
SidAttr(s) == Tok("sid_attr", 0, s, << >>, << >>)    \* "Ship=ABC-123"
SidBare(s) == Tok("sid_bare", 0, s, << >>, << >>)    \* "ABC-123"
\* The two forms of a home sector.
Home1(s) == Tok("home1", 0, s, << >>, << >>)  \* "Operating with home base: s (maxbuy="
Home2(s) == Tok("home2", 0, s, << >>, << >>)  \* "homeSector=s,"
\* Insufficient-funds fragments; money and cost are the digit-and-dot texts
\* captured by the named groups, one character per element.
BlockMD(m, c) == Tok("block_md", 0, "", m, c)    \* BLOCKED trade (early reject) ...
BlockAI(m, c) == Tok("block_ai", 0, "", m, c)    \* BLOCKED trade (authoritative guard) ...
EarlyGate(m) == Tok("early_gate", 0, "", m, << >>)  \* EARLY MONEY GATE ...
CapSkip(m) == Tok("cap_skip", 0, "", m, << >>)      \* SHIP MONEY CAP: ... last block (..)

HasLit(line, S) == \E i \in DOMAIN line : line[i].k = "lit" /\ line[i].s \in S
HasKind(line, K) == \E i \in DOMAIN line : line[i].k \in K
\* Index of the first token of a kind in K (0 when there is none).
FirstOf(line, K) ==
    IF HasKind(line, K)
    THEN CHOOSE i \in DOMAIN line :
           /\ line[i].k \in K
           /\ \A j \in DOMAIN line : line[j].k \in K => i <= j
    ELSE 0
\* Two literals in order: "a.*b".
HasLitThen(line, a, b) ==
    \E i, j \in DOMAIN line :
        /\ i < j
        /\ line[i].k = "lit" /\ line[i].s = a
        /\ line[j].k = "lit" /\ line[j].s = b

\* str.rstrip(): drop the trailing white space.
RECURSIVE rstrip(_)
rstrip(line) ==
    IF line # << >> /\ line[Len(line)].k = "ws"
    THEN rstrip(SubSeq(line, 1, Len(line) - 1))
    ELSE line

(***************************************************************************)
(* float() of a digits-and-dots text                                        *)
(***************************************************************************)
Digits == <<"0", "1", "2", "3", "4", "5", "6", "7", "8", "9">>
DigitVal(ch) == (CHOOSE d \in 1..10 : Digits[d] = ch) - 1
NumDots(t) == Cardinality({i \in DOMAIN t : t[i] = "."})
NumDigits(t) == Cardinality({i \in DOMAIN t : t[i] # "."})
\* float(t) raises ValueError unless t has a digit and at most one dot.
FloatOk(t) == NumDots(t) <= 1 /\ NumDigits(t) >= 1

RECURSIVE DigitsValue(_)
DigitsValue(t) ==
    IF t = << >> THEN 0
    ELSE 10 * DigitsValue(SubSeq(t, 1, Len(t) - 1)) + DigitVal(t[Len(t)])

\* The value of float(t) in thousandths (fractions beyond three digits cut).
FloatMilli(t) ==
    LET dot == IF NumDots(t) = 0 THEN Len(t) + 1
               ELSE CHOOSE i \in DOMAIN t : t[i] = "."
        ip == SubSeq(t, 1, dot - 1)
        fr == SubSeq(t, dot + 1, Len(t))
        f3 == [i \in 1..3 |-> IF i <= Len(fr) THEN fr[i] ELSE "0"]
    IN  1000 * DigitsValue(ip) + DigitsValue(f3)

(***************************************************************************)
(* Compiled patterns (gt_bug_report.py) as predicates on a line            *)
(***************************************************************************)
\* Literal fragments that contain "[GT-".
GTTagLits ==
    {"[GT-Trade]", "[GT-Lock]", "[GT-Fleet]", "[GT-Threat]", "[GT-Blacklist]",
     "[GT-Mods-Lua]"}
IsGTTagTok(t) == (t.k = "lit" /\ t.s \in GTTagLits) \/ t.k = "sid_gtai"

RE_GT_TAG(line) == \E i \in DOMAIN line : IsGTTagTok(line[i])
RE_ERROR_LINE(line) == HasLit(line, {"[=ERROR=]"})
RE_PROP_LOOKUP(line) == HasLit(line, {"Property lookup failed", "property lookup failed"})
RE_CRITICAL(line) ==
    HasLit(line, {"CRITICAL", "critical", "EXCEPTION", "Exception", "CRITICAL THREAT"})

\* Benign messages written with the [=ERROR=] tag.  All alternatives but the
\* separator are anchored: the line has to begin with the tag.
FalseErrorLits ==
    {"[GT-Mods-Lua]", "[GT Context", "Module loaded", "Registered event",
     "To use:", "Skipping MD file", "Duplicate addon",
     "Could not find signature file", "Restricted function"}
RE_FALSE_ERROR(line) ==
    \/ HasLit(line, {"=========="})
    \/ /\ line # << >>
       /\ line[1] = Lit("[=ERROR=]")
       /\ \/ \E i \in 2..Len(line) : line[i].k = "lit" /\ line[i].s \in FalseErrorLits
          \/ (Len(line) >= 2 /\ line[Len(line)] = Lit("Init"))

RE_REQUEST(line) == HasLit(line, {"SENDING GT_Find_Trade", "SENDING GT_Find_Sell"})
RE_ORDER_CREATED(line) ==
    HasLit(line, {"Created BUY trade order", "Created SELL trade order",
                  "Trade orders created:", "executing trade"})
RE_NO_TRADE(line) == HasLit(line, {"GT_No_Trade_Found"})
RE_TIMEOUT(line) == HasLit(line, {"MD system response timeout"})
RE_ALL_REJECTED(line) == HasLit(line, {"ALL 3 trades were rejected"})

RE_QUEUE_BUSY(line) == HasLit(line, {"Live search busy (active: 2/2) - QUEUING"})
RE_HOME_DENY(line) ==
    HasLit(line, {"Home-sector live refresh already active, denying live search"})
RE_LOCK_ACQ(line) == HasLitThen(line, "[GT-Lock]", "LOCK ACQUIRED")
RE_LOCK_REL(line) == HasLitThen(line, "[GT-Lock]", "LOCK RELEASED")

RE_BEST_TRADE_SEL(line) == HasLit(line, {"BEST TRADE SELECTED:"})
RE_CLAIM_SWITCH(line) ==
    HasLitThen(line, "[GT-Fleet]", "Best trade was already reserved, switched")

RE_THREAT(line) ==
    HasLit(line, {"[GT-Threat]", "[GT-Blacklist]", "CRITICAL THREAT",
                  "Ship destruction ignored"})
RE_SHIP_DESTROYED(line) ==
    HasLit(line, {"CRITICAL THREAT", "Ship destruction", "Ship destruction ignored"})

\* Index of the matching fragment, 0 for no match.
RE_HOME_SECTOR(line) == FirstOf(line, {"home1"})
RE_HOME_SECTOR2(line) == FirstOf(line, {"home2"})
RE_BLOCKED_EARLY_REJECT(line) == FirstOf(line, {"block_md"})
RE_BLOCKED_AUTH_GUARD(line) == FirstOf(line, {"block_ai"})
RE_EARLY_MONEY_GATE(line) == FirstOf(line, {"early_gate"})
RE_SHIP_MONEY_CAP_SKIP(line) == FirstOf(line, {"cap_skip"})
RE_SHIP_MONEY_CAP_CLEARED(line) == HasLit(line, {"SHIP MONEY CAP CLEARED"})
RE_INSUFFICIENT_FUNDS_WAIT(line) ==
    HasLit(line, {"insufficient funds - waiting 5.0-10.0s"})
RE_TS_FLOAT(line) == FirstOf(line, {"ts"})

\* The keyword fragments of the mod-relevance test.
HasGTFind(line) ==
    HasLit(line, {"SENDING GT_Find_Trade", "SENDING GT_Find_Sell", "GT_Find_Trade"})
HasGTNoTrade(line) == HasLit(line, {"GT_No_Trade_Found"})
HasGTTrade(line) == HasLit(line, {"GT_Trade_Completed"})
\* The negation of the "continue" test of the loop.
ModRelevant(line) ==
    RE_GT_TAG(line) \/ HasGTFind(line) \/ HasGTNoTrade(line) \/ HasGTTrade(line)

(***************************************************************************)
(* gt_log_utils.py: ship ID extraction                                      *)
(***************************************************************************)
\* RE_SHIP_ID finds the bare ID inside every one of the four forms.
RE_SHIP_ID(line) == FirstOf(line, {"sid_gtai", "sid_paren", "sid_attr", "sid_bare"})
RE_SHIP_ID_PAREN(line) == FirstOf(line, {"sid_paren"})
RE_SHIP_ID_ATTR(line) == FirstOf(line, {"sid_attr"})
RE_SHIP_ID_GTAI(line) == FirstOf(line, {"sid_gtai"})

\* (a variant that returns the leftmost ID of the line, whatever its form)
extract_ship_id_leftmost(text) ==
    IF RE_SHIP_ID(text) # 0 THEN Some(text[RE_SHIP_ID(text)].s) ELSE None

extract_ship_id(text) ==
    IF RE_SHIP_ID_GTAI(text) # 0 THEN Some(text[RE_SHIP_ID_GTAI(text)].s)
    ELSE IF RE_SHIP_ID_PAREN(text) # 0 THEN Some(text[RE_SHIP_ID_PAREN(text)].s)
    ELSE IF RE_SHIP_ID_ATTR(text) # 0 THEN Some(text[RE_SHIP_ID_ATTR(text)].s)
    ELSE IF RE_SHIP_ID(text) # 0 THEN Some(text[RE_SHIP_ID(text)].s)
    ELSE None

\* The timestamp of a line: float(ts_m.group(1)), None without a marker.
LineTs(stripped) ==
    IF RE_TS_FLOAT(stripped) # 0 THEN Some(stripped[RE_TS_FLOAT(stripped)].n) ELSE None

(***************************************************************************)
(* analyze_log: the accumulators and one iteration of the loop             *)
(***************************************************************************)
\* Length of the trailing window of the recent_* counters, in seconds.
RECENT_WINDOW == 300
\* Caps of the three sample buffers.
MAX_ERROR_LINES == 200
MAX_PROP_LOOKUP_FAILS == 50
MAX_CRITICAL_LINES == 50

\* The accumulators as analyze_log creates them.
EmptyState ==
    [ total_lines |-> 0, gt_lines |-> 0, ship_ids |-> {}, home_sectors |-> {},
      first_ts |-> None, last_ts |-> 0, ops_per_ts |-> EmptyMap,
      request_count |-> 0, order_count |-> 0, no_trade_count |-> 0,
      timeout_count |-> 0, all_rejected_count |-> 0,
      ships_with_request |-> EmptyMap, ships_with_terminal |-> {},
      queue_busy_count |-> 0, home_deny_count |-> 0,
      lock_acq_count |-> 0, lock_rel_count |-> 0,
      best_trade_sel_count |-> 0, claim_switch_count |-> 0,
      threat_event_count |-> 0, ship_destroyed_count |-> 0,
      block_early_reject_count |-> 0, block_auth_guard_count |-> 0,
      early_money_gate_count |-> 0, ship_money_cap_skip_count |-> 0,
      ship_money_cap_cleared_count |-> 0, insufficient_funds_wait_count |-> 0,
      funds_events_per_ship |-> EmptyMap, money_at_blocks |-> << >>,
      first_funds_block_ts |-> None, last_funds_block_ts |-> 0,
      recent_money_blocked |-> EmptyMap,
      error_lines |-> << >>, prop_lookup_fails |-> << >>, critical_lines |-> << >>,
      recent_no_trade |-> EmptyMap, recent_rejected |-> EmptyMap,
      recent_timeout |-> EmptyMap,
      log_tail |-> << >> ]

\* "ts and last_ts > 0 and ts >= last_ts - 300"
InRecentWindow(ts, last_ts) ==
    Truthy(ts) /\ last_ts > 0 /\ Val(ts) >= last_ts - RECENT_WINDOW

\* (a variant that keeps the timestamp of the latest line instead of the maximum)
StepTimestampLatest(s, ts) ==
    IF IsNone(ts) THEN s
    ELSE [s EXCEPT !.first_ts = IF IsNone(@) THEN ts ELSE @,
                   !.last_ts = Val(ts),
                   !.ops_per_ts = CounterInc(@, Val(ts))]

\* Timestamp extraction: first_ts, the running maximum, operations per timestamp.
StepTimestamp(s, ts) ==
    IF IsNone(ts) THEN s
    ELSE [s EXCEPT !.first_ts = IF IsNone(@) THEN ts ELSE @,
                   !.last_ts = Max(@, Val(ts)),
                   !.ops_per_ts = CounterInc(@, Val(ts))]

\* (a variant that keeps the newest lines: the oldest is dropped when full)
SampleAppendDropOldest(buf, cap, x) ==
    IF Len(buf) < cap THEN Append(buf, x) ELSE Append(Tail(buf), x)

\* A bounded sample buffer: append while there is room.
SampleAppend(buf, cap, x) == IF Len(buf) < cap THEN Append(buf, x) ELSE buf

IsErrorSampleAnyTag(stripped) == RE_ERROR_LINE(stripped)
IsErrorSample(stripped) == RE_ERROR_LINE(stripped) /\ ~RE_FALSE_ERROR(stripped)
IsPropSample(stripped) == RE_PROP_LOOKUP(stripped)
IsCriticalSampleTaggedToo(stripped) == RE_CRITICAL(stripped)
IsCriticalSample(stripped) == RE_CRITICAL(stripped) /\ ~RE_GT_TAG(stripped)

\* Error, property-lookup and critical lines: checked for every line.
StepSamples(s, stripped) ==
    [s EXCEPT
       !.error_lines =
          IF IsErrorSample(stripped)
          THEN SampleAppend(@, MAX_ERROR_LINES, stripped) ELSE @,
       !.prop_lookup_fails =
          IF IsPropSample(stripped)
          THEN SampleAppend(@, MAX_PROP_LOOKUP_FAILS, stripped) ELSE @,
       !.critical_lines =
          IF IsCriticalSample(stripped)
          THEN SampleAppend(@, MAX_CRITICAL_LINES, stripped) ELSE @]

\* (a variant that keeps the first tail_size lines: a full buffer drops the new line)
TailAppendKeepFirst(tail, x, tail_size) ==
    IF tail_size > 0 /\ Len(tail) >= tail_size THEN tail ELSE Append(tail, x)

\* log_tail.append: a deque(maxlen=tail_size) when tail_size > 0, else a list.
TailAppend(tail, x, tail_size) ==
    IF tail_size > 0 /\ Len(tail) >= tail_size
    THEN Append(SubSeq(tail, 2, Len(tail)), x)
    ELSE Append(tail, x)

StepTail(s, stripped, tail_size) ==
    [s EXCEPT !.log_tail = TailAppend(@, stripped, tail_size)]

\* The home sector of a line: format 1 first, format 2 as the fallback.
HomeSector(stripped) ==
    IF RE_HOME_SECTOR(stripped) # 0 THEN Some(stripped[RE_HOME_SECTOR(stripped)].s)
    ELSE IF RE_HOME_SECTOR2(stripped) # 0 THEN Some(stripped[RE_HOME_SECTOR2(stripped)].s)
    ELSE None

\* (a variant that records a ship only in its [GT-AI] form)
StepEntitiesTaggedShips(s, stripped, sid) ==
    [s EXCEPT
       !.gt_lines = @ + 1,
       !.ship_ids = IF RE_SHIP_ID_GTAI(stripped) = 0 THEN @ ELSE @ \cup {Val(sid)},
       !.home_sectors =
          IF IsNone(HomeSector(stripped)) THEN @ ELSE @ \cup {Val(HomeSector(stripped))}]

\* GT line count, ship ID and home sector.
StepEntities(s, stripped, sid) ==
    [s EXCEPT
       !.gt_lines = @ + 1,
       !.ship_ids = IF IsNone(sid) THEN @ ELSE @ \cup {Val(sid)},
       !.home_sectors =
          IF IsNone(HomeSector(stripped)) THEN @ ELSE @ \cup {Val(HomeSector(stripped))}]

\* A terminal response: an order was created or no trade was found.
TerminalWithTimeout(stripped) ==
    RE_ORDER_CREATED(stripped) \/ RE_NO_TRADE(stripped) \/ RE_TIMEOUT(stripped)
IsTerminalResponse(stripped) == RE_ORDER_CREATED(stripped) \/ RE_NO_TRADE(stripped)

\* (a variant in which a request reopens the ship: it waits for a response again)
StepTradeRequestReopens(s, stripped, ts, sid) ==
    LET recent == (~IsNone(sid)) /\ InRecentWindow(ts, s.last_ts)
    IN
    [s EXCEPT
       !.request_count = IF RE_REQUEST(stripped) THEN @ + 1 ELSE @,
       !.ships_with_request =
          IF RE_REQUEST(stripped) /\ ~IsNone(sid)
          THEN DictSet(@, Val(sid), OrZero(ts)) ELSE @,
       !.order_count = IF RE_ORDER_CREATED(stripped) THEN @ + 1 ELSE @,
       !.ships_with_terminal =
          IF IsTerminalResponse(stripped) /\ ~IsNone(sid)
          THEN @ \cup {Val(sid)}
          ELSE IF RE_REQUEST(stripped) /\ ~IsNone(sid) THEN @ \ {Val(sid)} ELSE @,
       !.no_trade_count = IF RE_NO_TRADE(stripped) THEN @ + 1 ELSE @,
       !.recent_no_trade =
          IF RE_NO_TRADE(stripped) /\ recent THEN CounterInc(@, Val(sid)) ELSE @,
       !.timeout_count = IF RE_TIMEOUT(stripped) THEN @ + 1 ELSE @,
       !.recent_timeout =
          IF RE_TIMEOUT(stripped) /\ recent THEN CounterInc(@, Val(sid)) ELSE @,
       !.all_rejected_count = IF RE_ALL_REJECTED(stripped) THEN @ + 1 ELSE @,
       !.recent_rejected =
          IF RE_ALL_REJECTED(stripped) /\ recent THEN CounterInc(@, Val(sid)) ELSE @]

\* Trade order events.
StepTrade(s, stripped, ts, sid) ==
    LET recent == (~IsNone(sid)) /\ InRecentWindow(ts, s.last_ts)
    IN
    [s EXCEPT
       !.request_count = IF RE_REQUEST(stripped) THEN @ + 1 ELSE @,
       !.ships_with_request =
          IF RE_REQUEST(stripped) /\ ~IsNone(sid)
          THEN DictSet(@, Val(sid), OrZero(ts)) ELSE @,
       !.order_count = IF RE_ORDER_CREATED(stripped) THEN @ + 1 ELSE @,
       !.ships_with_terminal =
          IF IsTerminalResponse(stripped) /\ ~IsNone(sid)
          THEN @ \cup {Val(sid)} ELSE @,
       !.no_trade_count = IF RE_NO_TRADE(stripped) THEN @ + 1 ELSE @,
       !.recent_no_trade =
          IF RE_NO_TRADE(stripped) /\ recent THEN CounterInc(@, Val(sid)) ELSE @,
       !.timeout_count = IF RE_TIMEOUT(stripped) THEN @ + 1 ELSE @,
       !.recent_timeout =
          IF RE_TIMEOUT(stripped) /\ recent THEN CounterInc(@, Val(sid)) ELSE @,
       !.all_rejected_count = IF RE_ALL_REJECTED(stripped) THEN @ + 1 ELSE @,
       !.recent_rejected =
          IF RE_ALL_REJECTED(stripped) /\ recent THEN CounterInc(@, Val(sid)) ELSE @]

\* Live search, cache and threat events.
StepLiveSearch(s, stripped) ==
    [s EXCEPT
       !.queue_busy_count = IF RE_QUEUE_BUSY(stripped) THEN @ + 1 ELSE @,
       !.home_deny_count = IF RE_HOME_DENY(stripped) THEN @ + 1 ELSE @,
       !.lock_acq_count = IF RE_LOCK_ACQ(stripped) THEN @ + 1 ELSE @,
       !.lock_rel_count = IF RE_LOCK_REL(stripped) THEN @ + 1 ELSE @]

StepCache(s, stripped) ==
    [s EXCEPT
       !.best_trade_sel_count = IF RE_BEST_TRADE_SEL(stripped) THEN @ + 1 ELSE @,
       !.claim_switch_count = IF RE_CLAIM_SWITCH(stripped) THEN @ + 1 ELSE @]

\* (a variant that counts threat events only once a timestamp has been seen)
StepThreatsAfterFirstTs(s, stripped) ==
    [s EXCEPT
       !.threat_event_count = IF RE_THREAT(stripped) /\ s.last_ts > 0 THEN @ + 1 ELSE @,
       !.ship_destroyed_count = IF RE_SHIP_DESTROYED(stripped) THEN @ + 1 ELSE @]

StepThreats(s, stripped) ==
    [s EXCEPT
       !.threat_event_count = IF RE_THREAT(stripped) THEN @ + 1 ELSE @,
       !.ship_destroyed_count = IF RE_SHIP_DESTROYED(stripped) THEN @ + 1 ELSE @]

(***************************************************************************)
(* Insufficient funds / money cap events.  float() of a captured text      *)
(* raises ValueError when the text is no number; the exception leaves the  *)
(* loop, so whatever follows the failing call in the iteration is skipped. *)
(***************************************************************************)
\* Which of the four funds blocks raises (0: none).
FundsRaiseStage(stripped, sid) ==
    LET er == RE_BLOCKED_EARLY_REJECT(stripped)
        ag == RE_BLOCKED_AUTH_GUARD(stripped)
        emg == RE_EARLY_MONEY_GATE(stripped)
        smc == RE_SHIP_MONEY_CAP_SKIP(stripped)
    IN  IF er # 0 /\ ~(FloatOk(stripped[er].money) /\ FloatOk(stripped[er].cost)) THEN 1
        ELSE IF ag # 0 /\ ~(FloatOk(stripped[ag].money) /\ FloatOk(stripped[ag].cost)) THEN 2
        ELSE IF emg # 0 /\ ~IsNone(sid) /\ ~FloatOk(stripped[emg].money) THEN 3
        ELSE IF smc # 0 /\ ~IsNone(sid) /\ ~FloatOk(stripped[smc].money) THEN 4
        ELSE 0

\* The part of a BLOCKED-trade block that follows the two float() calls.
StepBlockBody(s, tok, etype, ts, sid) ==
    LET money_cr == FloatMilli(tok.money)
        cost_cr == FloatMilli(tok.cost)
    IN
    [s EXCEPT
       !.money_at_blocks = IF IsNone(ts) THEN @ ELSE Append(@, << Val(ts), money_cr >>),
       !.first_funds_block_ts = IF (~IsNone(ts)) /\ IsNone(@) THEN ts ELSE @,
       !.last_funds_block_ts = IF IsNone(ts) THEN @ ELSE Val(ts),
       !.funds_events_per_ship =
          IF IsNone(sid) THEN @
          ELSE ListDictAppend(@, Val(sid), << OrZero(ts), etype, money_cr, cost_cr >>),
       !.recent_money_blocked =
          IF (~IsNone(sid)) /\ InRecentWindow(ts, s.last_ts)
          THEN CounterInc(@, Val(sid)) ELSE @]

\* The part of a search-skip block under "if sid:".
StepSkipBody(s, tok, etype, ts, sid) ==
    IF IsNone(sid) THEN s
    ELSE
    [s EXCEPT
       !.funds_events_per_ship =
          ListDictAppend(@, Val(sid), << OrZero(ts), etype, FloatMilli(tok.money), 0 >>),
       !.recent_money_blocked =
          IF InRecentWindow(ts, s.last_ts) THEN CounterInc(@, Val(sid)) ELSE @]

StepFunds(s, stripped, ts, sid) ==
    LET stage == FundsRaiseStage(stripped, sid)
        Reached(k) == stage = 0 \/ k <= stage
        Completes(k) == stage = 0 \/ k < stage
        er == RE_BLOCKED_EARLY_REJECT(stripped)
        ag == RE_BLOCKED_AUTH_GUARD(stripped)
        emg == RE_EARLY_MONEY_GATE(stripped)
        smc == RE_SHIP_MONEY_CAP_SKIP(stripped)
        s1 == IF er = 0 THEN s
              ELSE LET c == [s EXCEPT !.block_early_reject_count = @ + 1]
                   IN  IF Completes(1)
                       THEN StepBlockBody(c, stripped[er], "block_md", ts, sid) ELSE c
        s2 == IF ag = 0 \/ ~Reached(2) THEN s1
              ELSE LET c == [s1 EXCEPT !.block_auth_guard_count = @ + 1]
                   IN  IF Completes(2)
                       THEN StepBlockBody(c, stripped[ag], "block_ai", ts, sid) ELSE c
        s3 == IF emg = 0 \/ ~Reached(3) THEN s2
              ELSE LET c == [s2 EXCEPT !.early_money_gate_count = @ + 1]
                   IN  IF Completes(3)
                       THEN StepSkipBody(c, stripped[emg], "early_gate", ts, sid) ELSE c
        s4 == IF smc = 0 \/ ~Reached(4) THEN s3
              ELSE LET c == [s3 EXCEPT !.ship_money_cap_skip_count = @ + 1]
                   IN  IF Completes(4)
                       THEN StepSkipBody(c, stripped[smc], "cap_skip", ts, sid) ELSE c
    IN  IF stage # 0 THEN s4
        ELSE [s4 EXCEPT
                !.ship_money_cap_cleared_count =
                   IF RE_SHIP_MONEY_CAP_CLEARED(stripped) THEN @ + 1 ELSE @,
                !.insufficient_funds_wait_count =
                   IF RE_INSUFFICIENT_FUNDS_WAIT(stripped) THEN @ + 1 ELSE @]

\* The GT-specific part of an iteration (what follows the "continue" test).
StepGT(s, stripped, ts, sid) ==
    StepFunds(
      StepThreats(
        StepCache(
          StepLiveSearch(
            StepTrade(StepEntities(s, stripped, sid), stripped, ts, sid),
            stripped),
          stripped),
        stripped),
      stripped, ts, sid)

\* (a variant without the "continue": every line gets the GT-specific part)
LoopBodyNoContinue(s, line, tail_size) ==
    LET stripped == rstrip(line)
        ts == LineTs(stripped)
        s0 == [s EXCEPT !.total_lines = @ + 1]
        s1 == StepTail(StepSamples(StepTimestamp(s0, ts), stripped), stripped, tail_size)
    IN  StepGT(s1, stripped, ts, extract_ship_id(stripped))

\* One iteration of "for line in fh".
LoopBody(s, line, tail_size) ==
    LET stripped == rstrip(line)
        ts == LineTs(stripped)
        s0 == [s EXCEPT !.total_lines = @ + 1]
        s1 == StepTail(StepSamples(StepTimestamp(s0, ts), stripped), stripped, tail_size)
    IN  IF ~ModRelevant(stripped) THEN s1
        ELSE StepGT(s1, stripped, ts, extract_ship_id(stripped))

\* Whether the iteration is left by an exception.
LoopRaises(line) ==
    LET stripped == rstrip(line)
    IN  ModRelevant(stripped) /\ FundsRaiseStage(stripped, extract_ship_id(stripped)) # 0

(***************************************************************************)
(* Section 5: health checks.  A check result is what rpt.check receives:   *)
(* the check it belongs to, the message variant, the status, and the       *)
(* number the message reports.                                              *)
(***************************************************************************)
Check(check, msg, status, n) ==
    << [check |-> check, msg |-> msg, status |-> status, n |-> n] >>

\* sorted(counter.values())
RECURSIVE SortedValues(_)
SortedValues(c) ==
    IF DOMAIN c = {} THEN << >>
    ELSE LET k == CHOOSE x \in DOMAIN c : \A y \in DOMAIN c : c[x] <= c[y]
         IN  << c[k] >> \o SortedValues([x \in DOMAIN c \ {k} |-> c[x]])

\* gt_log_utils.percentile, times 100 (linear interpolation, p in percent).
percentile100(sorted_values, p) ==
    IF sorted_values = << >> THEN 0
    ELSE LET n == Len(sorted_values)
             k100 == (n - 1) * p
             f == k100 \div 100
             c == f + 1
         IN  IF c >= n THEN 100 * sorted_values[n]
             ELSE 100 * sorted_values[f + 1]
                  + (k100 - 100 * f) * (sorted_values[c + 1] - sorted_values[f + 1])

CheckPerformance(s) ==
    IF DOMAIN s.ops_per_ts # {}
    THEN LET sorted_ops == SortedValues(s.ops_per_ts)
             peak_ops == sorted_ops[Len(sorted_ops)]
             p95_ops == percentile100(sorted_ops, 95)
         IN  (IF peak_ops >= 100 THEN Check("peak_ops", "very high", "FAIL", peak_ops)
              ELSE IF peak_ops >= 50 THEN Check("peak_ops", "elevated", "WARN", peak_ops)
              ELSE Check("peak_ops", "ok", "PASS", peak_ops))
             \o
             (IF p95_ops >= 3000 THEN Check("p95_ops", "sustained high load", "WARN", p95_ops)
              ELSE Check("p95_ops", "ok", "PASS", p95_ops))
    ELSE Check("frame_data", "No GT frame data found", "WARN", 0)

\* (a variant that fails a rate of exactly 10%)
CheckSuccessRateFailAtTen(s) ==
    IF s.request_count > 0
    THEN IF 100 * s.order_count <= 10 * s.request_count /\ s.request_count >= 10
         THEN Check("success_rate", "rate", "FAIL", s.order_count)
         ELSE IF 100 * s.order_count < 30 * s.request_count /\ s.request_count >= 10
         THEN Check("success_rate", "rate", "WARN", s.order_count)
         ELSE Check("success_rate", "rate", "PASS", s.order_count)
    ELSE Check("success_rate", "No trade requests found in log", "INFO", 0)

\* success_rate = order_count / request_count * 100, compared exactly.
CheckSuccessRate(s) ==
    IF s.request_count > 0
    THEN IF 100 * s.order_count < 10 * s.request_count /\ s.request_count >= 10
         THEN Check("success_rate", "rate", "FAIL", s.order_count)
         ELSE IF 100 * s.order_count < 30 * s.request_count /\ s.request_count >= 10
         THEN Check("success_rate", "rate", "WARN", s.order_count)
         ELSE Check("success_rate", "rate", "PASS", s.order_count)
    ELSE Check("success_rate", "No trade requests found in log", "INFO", 0)

\* set(ships_with_request.keys()) - ships_with_terminal
Stalled(s) == (DOMAIN s.ships_with_request) \ s.ships_with_terminal

\* (a variant that fails from five stalled ships on)
CheckStalledFailAtFive(s) ==
    LET n == Cardinality(Stalled(s))
    IN  IF n >= 5 THEN Check("stalled", "request but no response", "FAIL", n)
        ELSE IF Stalled(s) # {} THEN Check("stalled", "may still be in progress", "WARN", n)
        ELSE Check("stalled", "No stalled ships detected", "PASS", 0)

CheckStalled(s) ==
    LET n == Cardinality(Stalled(s))
    IN  IF n > 5 THEN Check("stalled", "request but no response", "FAIL", n)
        ELSE IF Stalled(s) # {} THEN Check("stalled", "may still be in progress", "WARN", n)
        ELSE Check("stalled", "No stalled ships detected", "PASS", 0)

CheckTimeouts(s) ==
    IF s.timeout_count > 0
    THEN Check("timeouts", "MD timeouts",
               IF s.timeout_count < 10 THEN "WARN" ELSE "FAIL", s.timeout_count)
    ELSE Check("timeouts", "MD timeouts: 0", "PASS", 0)

CheckAllRejected(s) ==
    IF s.all_rejected_count > 0
    THEN Check("all_rejected", "All-trades-rejected events",
               IF s.all_rejected_count < 20 THEN "WARN" ELSE "FAIL", s.all_rejected_count)
    ELSE Check("all_rejected", "All-trades-rejected events: 0", "PASS", 0)

CheckQueueBusy(s) ==
    IF s.queue_busy_count >= 50
    THEN Check("queue_busy", "saturated", "WARN", s.queue_busy_count)
    ELSE Check("queue_busy", "ok", "PASS", s.queue_busy_count)

CheckHomeDeny(s) ==
    IF s.home_deny_count >= 200
    THEN Check("home_deny", "very high", "WARN", s.home_deny_count)
    ELSE IF s.home_deny_count >= 50
    THEN Check("home_deny", "high, may be normal for large fleets", "WARN", s.home_deny_count)
    ELSE Check("home_deny", "ok", "PASS", s.home_deny_count)

\* (a variant that warns about any imbalance, surplus releases included)
CheckLocksAnyImbalance(s) ==
    LET unreleased == s.lock_acq_count - s.lock_rel_count
    IN  IF s.lock_acq_count = 0 /\ s.lock_rel_count = 0
        THEN Check("locks", "No lock operations found", "INFO", 0)
        ELSE IF unreleased > 5 THEN Check("locks", "Unreleased locks", "FAIL", unreleased)
        ELSE IF unreleased # 0
        THEN Check("locks", "may be in-progress searches", "WARN", unreleased)
        ELSE Check("locks", "All locks released", "PASS", unreleased)

CheckLocks(s) ==
    LET unreleased == s.lock_acq_count - s.lock_rel_count
    IN  IF s.lock_acq_count = 0 /\ s.lock_rel_count = 0
        THEN Check("locks", "No lock operations found", "INFO", 0)
        ELSE IF unreleased > 5 THEN Check("locks", "Unreleased locks", "FAIL", unreleased)
        ELSE IF unreleased > 0
        THEN Check("locks", "may be in-progress searches", "WARN", unreleased)
        ELSE Check("locks", "All locks released", "PASS", unreleased)

\* switch_rate = claim_switch_count / best_trade_sel_count * 100, compared exactly.
CheckClaimSwitch(s) ==
    IF s.best_trade_sel_count > 0
    THEN IF 100 * s.claim_switch_count > 30 * s.best_trade_sel_count
         THEN Check("claim_switch", "high contention", "WARN", s.claim_switch_count)
         ELSE Check("claim_switch", "ok", "PASS", s.claim_switch_count)
    ELSE Check("claim_switch", "No trade selections found", "INFO", 0)

CheckShipDestroyed(s) ==
    IF s.ship_destroyed_count > 10
    THEN Check("ship_destroyed", "High ship destruction count", "WARN", s.ship_destroyed_count)
    ELSE IF s.ship_destroyed_count > 0
    THEN Check("ship_destroyed", "Ship destructions", "INFO", s.ship_destroyed_count)
    ELSE Check("ship_destroyed", "No ship destruction events", "PASS", 0)

CheckFunds(s) ==
    LET total_funds_blocks == s.block_early_reject_count + s.block_auth_guard_count
        total_funds_skips == s.early_money_gate_count + s.ship_money_cap_skip_count
    IN  IF total_funds_blocks = 0 /\ total_funds_skips = 0
        THEN Check("funds", "No insufficient funds events", "PASS", 0)
        ELSE (IF total_funds_blocks > 0
              THEN IF total_funds_blocks > 100
                   THEN Check("funds", "total blocks, excessive", "FAIL", total_funds_blocks)
                   ELSE IF total_funds_blocks > 20
                   THEN Check("funds", "total blocks", "WARN", total_funds_blocks)
                   ELSE Check("funds", "total blocks", "INFO", total_funds_blocks)
              ELSE << >>)
             \o
             (IF s.ship_money_cap_skip_count > 0
              THEN Check("funds", "cap saved searches", "PASS", s.ship_money_cap_skip_count)
              ELSE << >>)

\* The results of section 5 in the order they are written.
HealthChecks(s) ==
    CheckPerformance(s) \o CheckSuccessRate(s) \o CheckStalled(s) \o CheckTimeouts(s)
    \o CheckAllRejected(s) \o CheckQueueBusy(s) \o CheckHomeDeny(s) \o CheckLocks(s)
    \o CheckClaimSwitch(s) \o CheckShipDestroyed(s) \o CheckFunds(s)

(***************************************************************************)
(* Sections 6 and 7: property-lookup, critical and recent-issue results.   *)
(***************************************************************************)
CheckPropLookup(s) ==
    IF s.prop_lookup_fails # << >>
    THEN Check("prop_lookup", "Property lookup failures",
               IF Len(s.prop_lookup_fails) < 10 THEN "WARN" ELSE "FAIL",
               Len(s.prop_lookup_fails))
    ELSE Check("prop_lookup", "No property lookup failures", "PASS", 0)

CheckCritical(s) ==
    IF s.critical_lines # << >>
    THEN Check("critical", "Critical/exception lines", "FAIL", Len(s.critical_lines))
    ELSE Check("critical", "No critical exceptions", "PASS", 0)

\* {ship: count for ship, count in counter.items() if count >= least}
Repeated(counter, least) == {k \in DOMAIN counter : counter[k] >= least}

CheckRecent(s) ==
    LET repeat_no_trade == Repeated(s.recent_no_trade, 3)
        repeat_rej == Repeated(s.recent_rejected, 2)
        repeat_money == Repeated(s.recent_money_blocked, 2)
        a == IF repeat_no_trade # {}
             THEN Check("recent", "repeated GT_No_Trade_Found", "WARN",
                        Cardinality(repeat_no_trade))
             ELSE << >>
        b == IF repeat_rej # {}
             THEN Check("recent", "all-trades-rejected", "WARN", Cardinality(repeat_rej))
             ELSE << >>
        c == IF DOMAIN s.recent_timeout # {}
             THEN Check("recent", "MD timeouts", "FAIL", Cardinality(DOMAIN s.recent_timeout))
             ELSE << >>
        d == IF repeat_money # {}
             THEN Check("recent", "blocked by insufficient funds", "WARN",
                        Cardinality(repeat_money))
             ELSE << >>
    IN  IF a \o b \o c \o d = << >>
        THEN Check("recent", "No recurring ship issues", "PASS", 0)
        ELSE a \o b \o c \o d

(***************************************************************************)
(* The state machine                                                        *)
(***************************************************************************)
VARIABLES
    fh,         \* the lines of the log file read so far by this pass
    tail_size,  \* the tail_size argument of analyze_log
    pc,         \* "loop": reading; "raised": left by an exception; "done": reported
    st,         \* the accumulators of analyze_log
    rpt,        \* the check results written to the report, in order
    runs,       \* the completed passes: lines read, final accumulators, results
    call,       \* a call of a gt_log_utils helper on its own: the arguments
    ret         \* its return value (None while the call has not returned)

vars == << fh, tail_size, pc, st, rpt, runs, call, ret >>

\* (a variant whose error buffer outlives the call)
analyze_log_shared_error_lines ==
    /\ fh' = << >>
    /\ pc' = "loop"
    /\ st' = [EmptyState EXCEPT !.error_lines = st.error_lines]
    /\ rpt' = << >>

\* analyze_log is entered: every accumulator is created afresh.
analyze_log ==
    /\ fh' = << >>
    /\ pc' = "loop"
    /\ st' = EmptyState
    /\ rpt' = << >>

\* One iteration of the loop over the file, reading `line`.
ReadLine(line) ==
    /\ pc = "loop"
    /\ fh' = Append(fh, line)
    /\ st' = LoopBody(st, line, tail_size)
    /\ pc' = IF LoopRaises(line) THEN "raised" ELSE "loop"
    /\ UNCHANGED << tail_size, rpt, runs, call, ret >>

\* What sections 5 to 7 write with rpt.check.
ReportChecks(s) ==
    HealthChecks(s) \o CheckPropLookup(s) \o CheckCritical(s) \o CheckRecent(s)

\* End of the file: the loop ends and the report sections are written.
Report ==
    /\ pc = "loop"
    /\ pc' = "done"
    /\ rpt' = rpt \o ReportChecks(st)
    /\ runs' = Append(runs, [lines |-> fh, state |-> st, rpt |-> rpt \o ReportChecks(st)])
    /\ UNCHANGED << fh, tail_size, st, call, ret >>

InitWith(tails) ==
    /\ fh = << >>
    /\ tail_size \in tails
    /\ pc = "loop"
    /\ st = EmptyState
    /\ rpt = << >>
    /\ runs = << >>
    /\ call = None
    /\ ret = None

(***************************************************************************)
(* Inputs                                                                   *)
(***************************************************************************)
ShipName(i) == IF i < 10 THEN "AAA-00" \o ToString(i) ELSE "AAA-0" \o ToString(i)
ShipA == ShipName(1)
ShipB == ShipName(2)

\* Short logs of arbitrary lines: timestamps on both sides of the window,
\* two ships, every event that has a recent_* counter.
MaxLines == 4
Corpus ==
    { << TS(0), SidGTAI(ShipA), Lit("GT_No_Trade_Found"), WS >>,
      << TS(1), SidGTAI(ShipA), Lit("GT_No_Trade_Found"), WS >>,
      << TS(300), SidGTAI(ShipA), Lit("SENDING GT_Find_Trade"), WS >>,
      << TS(301), Lit("[GT-Trade]"), SidParen(ShipB), Lit("MD system response timeout"), WS >>,
      << TS(601), SidGTAI(ShipB), Lit("SENDING GT_Find_Sell"), WS >>,
      << SidGTAI(ShipB), Lit("Created BUY trade order"), WS >>,
      << TS(301), Lit("Created SELL trade order"), SidParen(ShipA), WS >>,
      << TS(1), Lit("[GT-Trade]"), SidAttr(ShipA), Lit("ALL 3 trades were rejected"), WS >>,
      << TS(0), SidGTAI(ShipA), BlockMD(<<"1", "0", "0">>, <<"5", "0", "0">>), WS >>,
      << TS(301), SidGTAI(ShipB), CapSkip(<<"5", "0", ".", "5">>), WS, WS >> }

Init == InitWith({0})

ReadAny == \E line \in Corpus : Len(fh) < MaxLines /\ ReadLine(line)

Next == ReadAny \/ Report

Spec == Init /\ [][Next]_vars

(***************************************************************************)
(* Properties of the recent window                                          *)
(***************************************************************************)
\* The line read by the last iteration, as the loop sees it.
LastStripped(lines) == rstrip(lines[Len(lines)])

\* How many of the four funds patterns with a recent counter match.
FundsMatches(stripped) ==
    Cardinality({k \in {"block_md", "block_ai", "early_gate", "cap_skip"} :
                   HasKind(stripped, {k})})

\* An event with a recent_* counter on a mod-relevant line with ship and time.
IsRecentEvent(stripped) ==
    /\ ModRelevant(stripped)
    /\ ~IsNone(extract_ship_id(stripped))
    /\ ~IsNone(LineTs(stripped))
    /\ \/ RE_NO_TRADE(stripped) \/ RE_TIMEOUT(stripped) \/ RE_ALL_REJECTED(stripped)
       \/ FundsMatches(stripped) > 0

\* By how much each recent counter of the ship grew between two states.
RecentDeltas(old, new, sid) ==
    [ no_trade |-> CounterGet(new.recent_no_trade, sid) - CounterGet(old.recent_no_trade, sid),
      timeout |-> CounterGet(new.recent_timeout, sid) - CounterGet(old.recent_timeout, sid),
      rejected |-> CounterGet(new.recent_rejected, sid) - CounterGet(old.recent_rejected, sid),
      money |-> CounterGet(new.recent_money_blocked, sid)
                - CounterGet(old.recent_money_blocked, sid) ]

\* The growth the line calls for when it is (is not) inside the window.
WantedDeltas(stripped, inside) ==
    [ no_trade |-> IF inside /\ RE_NO_TRADE(stripped) THEN 1 ELSE 0,
      timeout |-> IF inside /\ RE_TIMEOUT(stripped) THEN 1 ELSE 0,
      rejected |-> IF inside /\ RE_ALL_REJECTED(stripped) THEN 1 ELSE 0,
      money |-> IF inside THEN FundsMatches(stripped) ELSE 0 ]

IterationDone == pc = "loop" /\ pc' = "loop" /\ Len(fh') = Len(fh) + 1

\* C1: for every event line with a ship ID and a timestamp t >= 0, the ship's
\* recent_* counter is incremented exactly when t >= M - 300, M being the
\* running maximum after the line; it is not incremented otherwise.
C1_RecentExactlyInWindow ==
    [][ (IterationDone /\ IsRecentEvent(LastStripped(fh')))
        => LET stripped == LastStripped(fh')
               t == Val(LineTs(stripped))
               sid == Val(extract_ship_id(stripped))
           IN  RecentDeltas(st, st', sid)
                 = WantedDeltas(stripped, t >= st'.last_ts - RECENT_WINDOW) ]_vars

\* C2: the lower bound of the window is inclusive: an event line whose
\* timestamp equals the running maximum - 300 increments its recent counter,
\* one whose timestamp is below the running maximum - 300 does not.
C2_LowerBoundInclusive ==
    [][ (IterationDone /\ IsRecentEvent(LastStripped(fh')))
        => LET stripped == LastStripped(fh')
               t == Val(LineTs(stripped))
               sid == Val(extract_ship_id(stripped))
           IN  /\ t = st'.last_ts - RECENT_WINDOW
                    => RecentDeltas(st, st', sid) = WantedDeltas(stripped, TRUE)
               /\ t < st'.last_ts - RECENT_WINDOW
                    => RecentDeltas(st, st', sid) = WantedDeltas(stripped, FALSE) ]_vars

\* Whether a line matches the pattern of an event.
EventMatches(event, stripped) ==
    CASE event = "request" -> RE_REQUEST(stripped)
      [] event = "order_created" -> RE_ORDER_CREATED(stripped)
      [] event = "no_trade" -> RE_NO_TRADE(stripped)
      [] event = "timeout" -> RE_TIMEOUT(stripped)
      [] event = "all_rejected" -> RE_ALL_REJECTED(stripped)

\* The event lines of a ship that no line at or before them outdates, i.e.
\* that stand before every line with a timestamp greater than theirs + 300.
NotOutdated(lines, sid, event) ==
    { i \in DOMAIN lines :
        LET stripped == rstrip(lines[i])
        IN  /\ IsRecentEvent(stripped)
            /\ EventMatches(event, stripped)
            /\ extract_ship_id(stripped) = Some(sid)
            /\ \A j \in 1..i :
                 LET tj == LineTs(rstrip(lines[j]))
                 IN  IsNone(tj) \/ Val(tj) <= Val(LineTs(stripped)) + RECENT_WINDOW }

\* C3: recent counters depend on line order: an event line at time t is
\* counted when it stands before the line with a timestamp above t + 300 and
\* is not counted when it stands after it; the running maximum is used.
C3_CountedIffBeforeLaterLine ==
    pc = "loop" =>
      \A sid \in {ShipA, ShipB} :
        /\ CounterGet(st.recent_no_trade, sid)
             = Cardinality(NotOutdated(fh, sid, "no_trade"))
        /\ CounterGet(st.recent_timeout, sid)
             = Cardinality(NotOutdated(fh, sid, "timeout"))
        /\ CounterGet(st.recent_rejected, sid)
             = Cardinality(NotOutdated(fh, sid, "all_rejected"))

(***************************************************************************)
(* Stalled ships                                                            *)
(***************************************************************************)
\* The ship IDs on the classified (mod-relevant) lines that match a pattern.
ShipsOn(lines, event) ==
    { Val(extract_ship_id(rstrip(lines[i]))) :
        i \in { j \in DOMAIN lines :
                  /\ ModRelevant(rstrip(lines[j]))
                  /\ EventMatches(event, rstrip(lines[j]))
                  /\ ~IsNone(extract_ship_id(rstrip(lines[j]))) } }

StalledOf(lines) ==
    ShipsOn(lines, "request")
      \ (ShipsOn(lines, "order_created") \cup ShipsOn(lines, "no_trade"))

\* The results of one check in a report.
ResultsOf(report, check) == SelectSeq(report, LAMBDA r : r.check = check)

MaxPermLines == 3
PermCorpus ==
    { << TS(400), SidGTAI(ShipA), Lit("SENDING GT_Find_Trade"),
         Lit("Live search busy (active: 2/2) - QUEUING"), Lit("BEST TRADE SELECTED:"),
         Lit("[GT-Lock]"), Lit("LOCK ACQUIRED"), WS >>,
      << TS(50), SidGTAI(ShipB), Lit("GT_No_Trade_Found"),
         Lit("MD system response timeout"), Lit("ALL 3 trades were rejected"),
         BlockMD(<<"9", "0">>, <<"1", "0", "0">>), BlockAI(<<"9", "0">>, <<"1", "0", "0">>),
         EarlyGate(<<"9", "0">>), CapSkip(<<"9", "0", ".", "2", "5">>),
         Lit("SHIP MONEY CAP CLEARED"), Lit("insufficient funds - waiting 5.0-10.0s"), WS >>,
      << Lit("[GT-Threat]"), Lit("Ship destruction ignored"), Lit("Created BUY trade order"),
         SidParen(ShipA), Home1("Argon Prime"),
         Lit("Home-sector live refresh already active, denying live search"),
         Lit("[GT-Lock]"), Lit("LOCK RELEASED"),
         Lit("[GT-Fleet]"), Lit("Best trade was already reserved, switched"), WS >>,
      << Lit("[=ERROR=]"), Lit("CRITICAL THREAT"), Lit("Property lookup failed"), WS >>,
      << TS(50), SidGTAI(ShipA), Lit("GT_No_Trade_Found"), WS >> }

Count(line, lines) == Cardinality({i \in DOMAIN lines : lines[i] = line})

\* The first pass reads any short log.
ReadFirst ==
    \E line \in PermCorpus :
        runs = << >> /\ Len(fh) < MaxPermLines /\ ReadLine(line)

\* The second pass reads the same lines in any order.
ReadRearranged ==
    \E line \in PermCorpus :
        /\ Len(runs) = 1
        /\ Count(line, fh) < Count(line, runs[1].lines)
        /\ ReadLine(line)

\* The file ends (for the second pass: when every line has been read).
EndOfFile ==
    /\ IF runs = << >> THEN TRUE ELSE Len(fh) = Len(runs[1].lines)
    /\ Report

\* The tool is run again.
RunAgain ==
    /\ pc = "done"
    /\ Len(runs) = 1
    /\ analyze_log
    /\ UNCHANGED << tail_size, runs, call, ret >>

InitPerm == InitWith({0, 2})

NextPerm == ReadFirst \/ ReadRearranged \/ EndOfFile \/ RunAgain

SpecPerm == InitPerm /\ [][NextPerm]_vars

\* The counters keyed by category alone.
ScalarCounters(s) ==
    << s.total_lines, s.gt_lines, s.request_count, s.order_count, s.no_trade_count,
       s.timeout_count, s.all_rejected_count, s.queue_busy_count, s.home_deny_count,
       s.lock_acq_count, s.lock_rel_count, s.best_trade_sel_count, s.claim_switch_count,
       s.threat_event_count, s.ship_destroyed_count,
       s.block_early_reject_count, s.block_auth_guard_count, s.early_money_gate_count,
       s.ship_money_cap_skip_count, s.ship_money_cap_cleared_count,
       s.insufficient_funds_wait_count >>

\* The recent_* maps of a state.
RecentMaps(s) ==
    << s.recent_no_trade, s.recent_timeout, s.recent_rejected, s.recent_money_blocked >>

\* C4: the final values of all scalar per-category counters are the same
\* for a sequence of lines and for every permutation of it.
C4_ScalarCountersOrderFree ==
    Len(runs) = 2 => ScalarCounters(runs[1].state) = ScalarCounters(runs[2].state)

\* Two passes over rearranged lines: every kind of counter was incremented,
\* and the recent maps (which do depend on the order) came out differently.
C4_Witness ==
    /\ Len(runs) = 2
    /\ runs[1].lines # runs[2].lines
    /\ \A i \in 3..21 : ScalarCounters(runs[2].state)[i] > 0
    /\ RecentMaps(runs[1].state) # RecentMaps(runs[2].state)

MaxLoadLines == 20
NumShips == 7
LoadKinds == {"request", "order_created", "no_trade", "timeout", "lock_acq", "lock_rel"}

\* The line of a kind at position p of the log.
LoadLine(kind, p) ==
    LET ship == SidGTAI(ShipName(((p - 1) % NumShips) + 1))
    IN  CASE kind = "request" -> << TS(p), ship, Lit("SENDING GT_Find_Trade"), WS >>
          [] kind = "order_created" -> << TS(p), ship, Lit("Created BUY trade order"), WS >>
          [] kind = "no_trade" -> << TS(p), ship, Lit("GT_No_Trade_Found"), WS >>
          [] kind = "timeout" -> << TS(p), ship, Lit("MD system response timeout"), WS >>
          [] kind = "lock_acq" -> << TS(p), Lit("[GT-Lock]"), Lit("LOCK ACQUIRED"), WS >>
          [] kind = "lock_rel" -> << TS(p), Lit("[GT-Lock]"), Lit("LOCK RELEASED"), WS >>

KindAt(lines, i) == CHOOSE kind \in LoadKinds : LoadLine(kind, i) = lines[i]

\* The next line continues the last block, or opens the second one.
MayFollow(lines, kind) ==
    IF lines = << >> THEN TRUE
    ELSE IF kind = KindAt(lines, Len(lines)) THEN TRUE
    ELSE \A i \in DOMAIN lines : KindAt(lines, i) = KindAt(lines, 1)

ReadLoad ==
    \E kind \in LoadKinds :
        /\ Len(fh) < MaxLoadLines
        /\ MayFollow(fh, kind)
        /\ ReadLine(LoadLine(kind, Len(fh) + 1))

InitLoad == InitWith({0})

NextLoad == ReadLoad \/ Report

SpecLoad == InitLoad /\ [][NextLoad]_vars

\* The number of classified lines of an event in a log.
LinesOf(lines, event) ==
    Cardinality({ i \in DOMAIN lines :
                    ModRelevant(rstrip(lines[i])) /\ EventMatches(event, rstrip(lines[i])) })
LockLines(lines, what) ==
    Cardinality({ i \in DOMAIN lines : HasLitThen(rstrip(lines[i]), "[GT-Lock]", what) })

\* The one result of a check in the report.
TheResult(check) == ResultsOf(rpt, check)[1]

\* C7: the stalled-ships check grades by the size n of the stalled set:
\* n = 0 gives PASS, 1 <= n <= 5 gives WARN, n > 5 gives FAIL and the FAIL
\* message reports n.
C7_StalledGrades ==
    pc = "done" =>
      LET n == Cardinality(StalledOf(fh))
      IN  /\ Len(ResultsOf(rpt, "stalled")) = 1
          /\ n = 0 => TheResult("stalled").status = "PASS"
          /\ (1 <= n /\ n <= 5) => TheResult("stalled").status = "WARN"
          /\ n > 5 => (TheResult("stalled").status = "FAIL" /\ TheResult("stalled").n = n)

\* Six ships with a request and no response at all: FAIL with count 6.
C7_Witness ==
    /\ pc = "done"
    /\ Cardinality(ShipsOn(fh, "request")) = 6
    /\ ShipsOn(fh, "order_created") \cup ShipsOn(fh, "no_trade") = {}
    /\ TheResult("stalled").status = "FAIL"
    /\ TheResult("stalled").n = 6

\* C8: the success-rate check, rate = orders / requests: with 10 or more
\* requests, rate < 10% gives FAIL, 10% <= rate < 30% gives WARN, rate >= 30%
\* gives PASS; with 1 to 9 requests PASS; with no request INFO.
C8_SuccessRateGrades ==
    pc = "done" =>
      LET r == LinesOf(fh, "request")
          o == LinesOf(fh, "order_created")
          status == TheResult("success_rate").status
      IN  /\ Len(ResultsOf(rpt, "success_rate")) = 1
          /\ r = 0 => status = "INFO"
          /\ (1 <= r /\ r < 10) => status = "PASS"
          /\ (r >= 10 /\ 100 * o < 10 * r) => status = "FAIL"
          /\ (r >= 10 /\ 10 * r <= 100 * o /\ 100 * o < 30 * r) => status = "WARN"
          /\ (r >= 10 /\ 100 * o >= 30 * r) => status = "PASS"

\* Ten requests and one order created: a rate of 10%, graded WARN.
C8_Witness ==
    /\ pc = "done"
    /\ LinesOf(fh, "request") = 10
    /\ LinesOf(fh, "order_created") = 1
    /\ TheResult("success_rate").status = "WARN"

\* C9: the lock check grades b = acquired - released at end-of-stream: with a
\* lock line seen, b <= 0 gives PASS, 1 <= b <= 5 WARN, b > 5 FAIL; with no
\* lock line INFO; the report goes on after the check whatever the balance.
C9_LockGrades ==
    pc = "done" =>
      LET a == LockLines(fh, "LOCK ACQUIRED")
          l == LockLines(fh, "LOCK RELEASED")
          b == a - l
          status == TheResult("locks").status
      IN  /\ Len(ResultsOf(rpt, "locks")) = 1
          /\ (a = 0 /\ l = 0) => status = "INFO"
          /\ (a + l > 0 /\ b <= 0) => status = "PASS"
          /\ (a + l > 0 /\ 1 <= b /\ b <= 5) => status = "WARN"
          /\ (a + l > 0 /\ b > 5) => status = "FAIL"
          /\ ResultsOf(rpt, "claim_switch") # << >>
          /\ ResultsOf(rpt, "recent") # << >>

\* Ten locks acquired and ten released: PASS, all locks released.
C9_Witness ==
    /\ pc = "done"
    /\ LockLines(fh, "LOCK ACQUIRED") = 10
    /\ LockLines(fh, "LOCK RELEASED") = 10
    /\ TheResult("locks").status = "PASS"
    /\ TheResult("locks").msg = "All locks released"

(***************************************************************************)
(* Floods: a log that repeats its first lines over and over, long enough   *)
(* to fill the sample buffers.                                              *)
(***************************************************************************)
MaxBufLines == 203
BufPrefix == 2

BufCorpus ==
    { << Lit("[=ERROR=]"), Lit("Script error in md.Setup"), WS >>,
      << Lit("[=ERROR=]"), Lit("Property lookup failed"), Lit("CRITICAL") >>,
      << TS(7), Lit("property lookup failed") >>,
      << Lit("[=ERROR=]"), Lit("Registered event") >>,
      << Lit("[GT-Trade]"), Lit("CRITICAL") >> }

\* The first BufPrefix lines are free, every later line repeats the line
\* BufPrefix places before it.
FloodAllows(lines, line) ==
    IF Len(lines) < BufPrefix THEN TRUE
    ELSE line = lines[Len(lines) + 1 - BufPrefix]

ReadFlood ==
    \E line \in BufCorpus :
        /\ Len(fh) < MaxBufLines
        /\ FloodAllows(fh, line)
        /\ ReadLine(line)

InitBuf == InitWith({0})

NextBuf == ReadFlood \/ Report

SpecBuf == InitBuf /\ [][NextBuf]_vars

\* The lines of a log as the loop sees them, and the first n of a sequence.
Stripped(lines) == [i \in DOMAIN lines |-> rstrip(lines[i])]
FirstN(seq, n) == IF Len(seq) <= n THEN seq ELSE SubSeq(seq, 1, n)

ErrorQualifying(lines) == SelectSeq(Stripped(lines), IsErrorSample)
PropQualifying(lines) == SelectSeq(Stripped(lines), IsPropSample)
CriticalQualifying(lines) == SelectSeq(Stripped(lines), IsCriticalSample)

BuffersBounded ==
    /\ Len(st.error_lines) <= 200
    /\ Len(st.prop_lookup_fails) <= 50
    /\ Len(st.critical_lines) <= 50

BuffersHoldFirst ==
    /\ st.error_lines = FirstN(ErrorQualifying(fh), 200)
    /\ st.prop_lookup_fails = FirstN(PropQualifying(fh), 50)
    /\ st.critical_lines = FirstN(CriticalQualifying(fh), 50)

FullBufferUnchanged ==
    /\ Len(st.error_lines) = 200 => st'.error_lines = st.error_lines
    /\ Len(st.prop_lookup_fails) = 50 => st'.prop_lookup_fails = st.prop_lookup_fails
    /\ Len(st.critical_lines) = 50 => st'.critical_lines = st.critical_lines

\* C10: in every state of the pass the sample buffers hold at most 200 error
\* lines, 50 property-lookup-failure lines and 50 critical lines; each buffer
\* holds exactly the first qualifying lines in stream order, and a qualifying
\* line arriving when its buffer is full leaves that buffer unchanged.
C10_SampleBuffersBounded ==
    [](BuffersBounded /\ BuffersHoldFirst) /\ [][FullBufferUnchanged]_vars

\* All three buffers full, with qualifying lines dropped after that, and two
\* different lines at the head of the error buffer.
C10_Witness ==
    /\ Len(st.error_lines) = 200
    /\ Len(ErrorQualifying(fh)) > 200
    /\ Len(st.prop_lookup_fails) = 50
    /\ Len(PropQualifying(fh)) > 50
    /\ Len(st.critical_lines) = 50
    /\ Len(CriticalQualifying(fh)) > 50
    /\ st.error_lines[1] # st.error_lines[2]
    /\ IsErrorSample(rstrip(fh[Len(fh)]))

(***************************************************************************)
(* Operations per timestamp                                                 *)
(***************************************************************************)
\* The mod-relevant lines of a log that carry timestamp t.
RelevantAt(lines, t) ==
    { i \in DOMAIN lines :
        /\ ModRelevant(rstrip(lines[i]))
        /\ LineTs(rstrip(lines[i])) = Some(t) }

TimestampsOf(lines) ==
    { Val(LineTs(rstrip(lines[i]))) :
        i \in { j \in DOMAIN lines : ~IsNone(LineTs(rstrip(lines[j]))) } }

\* C11: ops_per_timestamp[t] equals the number of mod-relevant lines observed
\* with timestamp t: a timestamped line that is not mod-relevant increases no
\* entry, and so does not affect the peak and p95 checks.
C11_OpsCountRelevantLines ==
    \A t \in TimestampsOf(fh) \cup DOMAIN st.ops_per_ts :
        CounterGet(st.ops_per_ts, t) = Cardinality(RelevantAt(fh, t))

(***************************************************************************)
(* Logs for the graded checks: home-refresh denials, trade selections and  *)
(* claim switches, ship destructions and the insufficient-funds events,     *)
(* repeated often enough to pass the thresholds.                            *)
(***************************************************************************)
MaxGradeLines == 201

GradeCorpus ==
    { << TS(5), Lit("[GT-Trade]"),
         Lit("Home-sector live refresh already active, denying live search"), WS >>,
      << TS(5), Lit("[GT-Trade]"), Lit("BEST TRADE SELECTED:") >>,
      << Lit("[GT-Fleet]"), Lit("Best trade was already reserved, switched") >>,
      << Lit("[GT-Threat]"), Lit("Ship destruction ignored") >>,
      << TS(5), SidGTAI(ShipA), BlockMD(<<"9", "0">>, <<"1", "0", "0">>) >>,
      << SidGTAI(ShipA), EarlyGate(<<"9", "0">>) >>,
      << SidGTAI(ShipB), CapSkip(<<"9", ".", "5">>) >>,
      << SidGTAI(ShipA), CapSkip(<<"1", ".", "2", ".", "3">>) >> }

ReadGrade ==
    \E line \in GradeCorpus :
        /\ Len(fh) < MaxGradeLines
        /\ FloodAllows(fh, line)
        /\ ReadLine(line)

InitGrade == InitWith({0})

NextGrade == ReadGrade \/ Report

SpecGrade == InitGrade /\ [][NextGrade]_vars

\* C12: once the log file has been opened no input line aborts the pass, funds
\* lines whose money and cost fields are arbitrary non-empty texts of digits
\* and dots included: every line is processed and the pass reaches
\* end-of-stream.
C12_NoLineAborts == pc # "raised"

\* The number of classified lines of a graded event in a log.
GradeMatches(event, stripped) ==
    CASE event = "home_deny" -> RE_HOME_DENY(stripped)
      [] event = "best_trade_sel" -> RE_BEST_TRADE_SEL(stripped)
      [] event = "claim_switch" -> RE_CLAIM_SWITCH(stripped)
      [] event = "ship_destroyed" -> RE_SHIP_DESTROYED(stripped)
      [] event = "block" -> HasKind(stripped, {"block_md", "block_ai"})
      [] event = "early_gate" -> HasKind(stripped, {"early_gate"})
      [] event = "cap_skip" -> HasKind(stripped, {"cap_skip"})
GradedLines(lines, event) ==
    Cardinality({ i \in DOMAIN lines :
                    ModRelevant(rstrip(lines[i])) /\ GradeMatches(event, rstrip(lines[i])) })

\* C13: the home-deny check grades home_deny_count: below 50 gives PASS, 50
\* to 199 gives WARN, 200 or more gives FAIL (with elevated wording).
C13_HomeDenyGrades ==
    pc = "done" =>
      LET n == GradedLines(fh, "home_deny")
          status == TheResult("home_deny").status
      IN  /\ Len(ResultsOf(rpt, "home_deny")) = 1
          /\ n < 50 => status = "PASS"
          /\ (50 <= n /\ n <= 199) => status = "WARN"
          /\ n >= 200 => status = "FAIL"

\* C14: the claim-switch check, when a best-trade selection was seen, grades
\* FAIL when claim switches / selections exceeds 30% and PASS otherwise; it
\* has no WARN level.
C14_ClaimSwitchGrades ==
    (pc = "done" /\ GradedLines(fh, "best_trade_sel") > 0) =>
      LET sel == GradedLines(fh, "best_trade_sel")
          sw == GradedLines(fh, "claim_switch")
          status == TheResult("claim_switch").status
      IN  /\ Len(ResultsOf(rpt, "claim_switch")) = 1
          /\ 100 * sw > 30 * sel => status = "FAIL"
          /\ 100 * sw <= 30 * sel => status = "PASS"

\* C15: the ship-destruction check grades ship_destroyed_count: 0 gives PASS,
\* 1 to 10 gives WARN, more than 10 gives FAIL.
C15_ShipDestroyedGrades ==
    pc = "done" =>
      LET n == GradedLines(fh, "ship_destroyed")
          status == TheResult("ship_destroyed").status
      IN  /\ Len(ResultsOf(rpt, "ship_destroyed")) = 1
          /\ n = 0 => status = "PASS"
          /\ (1 <= n /\ n <= 10) => status = "WARN"
          /\ n > 10 => status = "FAIL"

\* C16: the insufficient-funds check grades the total of funds blocks
\* (early-reject plus authoritative-guard blocks): 1 to 20 gives WARN, more
\* than 100 gives FAIL.
C16_FundsBlocksGrades ==
    (pc = "done" /\ GradedLines(fh, "block") > 0) =>
      LET n == GradedLines(fh, "block")
          status == TheResult("funds").status
      IN  /\ ResultsOf(rpt, "funds") # << >>
          /\ (1 <= n /\ n <= 20) => status = "WARN"
          /\ n > 100 => status = "FAIL"

\* The number of results a check of section 5 has in the report.  The single
\* "no frame data" result stands for both performance checks.
EmittedBy(check) ==
    Len(ResultsOf(rpt, check))
    + (IF check \in {"peak_ops", "p95_ops"} THEN Len(ResultsOf(rpt, "frame_data")) ELSE 0)

Section5Checks ==
    {"peak_ops", "p95_ops", "success_rate", "stalled", "timeouts", "all_rejected",
     "queue_busy", "home_deny", "locks", "claim_switch", "ship_destroyed", "funds"}

\* C17: for every final aggregate state each health check of section 5 emits
\* exactly one graded result from PASS, WARN, FAIL, INFO, never zero and never
\* more than one; also the insufficient-funds check when only early-money-gate
\* skips occurred and when both blocks and cap skips occurred.
C17_OneResultPerCheck ==
    pc = "done" =>
      /\ \A check \in Section5Checks : EmittedBy(check) = 1
      /\ \A i \in DOMAIN rpt : rpt[i].status \in {"PASS", "WARN", "FAIL", "INFO"}

(***************************************************************************)
(* gt_log_utils.py: truncate.  A string is a sequence of characters.       *)
(***************************************************************************)
\* s[:k], also for a negative k (counted from the end)
Slice(s, k) ==
    IF k >= 0 THEN SubSeq(s, 1, IF k < Len(s) THEN k ELSE Len(s))
    ELSE SubSeq(s, 1, Max(Len(s) + k, 0))

Ellipsis == << ".", ".", "." >>

\* (a variant that keeps n characters and then adds the ellipsis)
truncate_keeps_n(s, n) == IF Len(s) > n THEN Slice(s, n) \o Ellipsis ELSE s

truncate(s, n) == IF Len(s) > n THEN Slice(s, n - 3) \o Ellipsis ELSE s

\* The widths the report is configured with: error keys and sample lines,
\* and the lines of the log tail.
SAMPLE_WIDTH == 120
TAIL_WIDTH == 300
Widths == {SAMPLE_WIDTH, TAIL_WIDTH}

\* Texts of every length up to MaxTextLen, in three letters so that any two
\* neighbouring positions differ.
MaxTextLen == 303
Letters == << "a", "b", "c" >>
Text(p, len) == [i \in 1..len |-> Letters[((i + p) % 3) + 1]]

InitTruncate ==
    /\ fh = << >> /\ tail_size = 0 /\ pc = "loop"
    /\ st = EmptyState /\ rpt = << >> /\ runs = << >>
    /\ call \in { [s |-> Text(p, len), n |-> n] :
                    p \in 0..2, len \in 0..MaxTextLen, n \in Widths }
    /\ ret = None

\* truncate is called and returns.
CallTruncate ==
    /\ ret = None
    /\ ret' = Some(truncate(call.s, call.n))
    /\ UNCHANGED << fh, tail_size, pc, st, rpt, runs, call >>

NextTruncate == CallTruncate

SpecTruncate == InitTruncate /\ [][NextTruncate]_vars

\* C20: truncate(s, n), for every string s and every configured width n: the
\* result has length at most n; when len(s) <= n the result is s unchanged;
\* when len(s) > n it is the first n - 3 characters of s followed by "..."
\* and has length exactly n.
C20_TruncateWithinWidth ==
    ret # None =>
      LET s == call.s
          n == call.n
          r == Val(ret)
      IN  /\ Len(r) <= n
          /\ Len(s) <= n => r = s
          /\ Len(s) > n =>
               /\ Len(r) = n
               /\ \A i \in 1..(n - 3) : r[i] = s[i]
               /\ \A i \in (n - 2)..n : r[i] = "."

\* A text one character too long for the tail width, cut to 297 characters
\* and the ellipsis.
C20_Witness ==
    /\ ret # None
    /\ call.n = TAIL_WIDTH
    /\ Len(call.s) = TAIL_WIDTH + 1
    /\ Len(Val(ret)) = TAIL_WIDTH
    /\ Val(ret)[TAIL_WIDTH - 3] = call.s[TAIL_WIDTH - 3]
    /\ Val(ret)[TAIL_WIDTH - 2] = "."

(***************************************************************************)
(* Section 6: the error summary.  Error lines are spelled out here: the     *)
(* tag, single white-space characters (WS inside a line), the timestamp     *)
(* that follows the tag, and the characters of the message.                 *)
(***************************************************************************)
Ch(c) == Tok("ch", 0, c, << >>, << >>)        \* one character of text
Stamp(n) == Tok("num", n, "", << >>, << >>)   \* "<n>.00", n a single digit
ErrorTag == Lit("[=ERROR=]")

DigitChars == << "0", "1", "2", "3", "4", "5", "6", "7", "8", "9" >>

\* The text of a fragment.  A fragment that is not spelled out stands as one
\* element; the lines that carry such fragments are far shorter than the
\* widths of the report.
FragmentChars(tok) ==
    CASE tok.k = "ch" -> << tok.s >>
      [] tok.k = "ws" -> << " " >>
      [] tok.k = "num" -> << DigitChars[tok.n + 1], ".", "0", "0" >>
      [] tok = ErrorTag -> << "[", "=", "E", "R", "R", "O", "R", "=", "]" >>
      [] tok.k = "lit" /\ tok # ErrorTag -> << tok.s >>
      [] OTHER -> << tok.k >>

\* "".join(pieces), joined half by half
RECURSIVE Flatten(_)
Flatten(pieces) ==
    IF pieces = << >> THEN << >>
    ELSE IF Len(pieces) = 1 THEN pieces[1]
    ELSE LET half == Len(pieces) \div 2
         IN  Flatten(SubSeq(pieces, 1, half))
             \o Flatten(SubSeq(pieces, half + 1, Len(pieces)))

Chars(line) == Flatten([i \in DOMAIN line |-> FragmentChars(line[i])])

\* The first position from i on that holds no white space (Len + 1 if none).
RECURSIVE SkipWS(_, _)
SkipWS(e, i) ==
    IF i <= Len(e) /\ e[i].k = "ws" THEN SkipWS(e, i + 1) ELSE i

\* (a variant whose pattern lacks the white space between tag and timestamp)
StampMatchNoSpace(e, i) ==
    IF e[i] = ErrorTag /\ i + 1 <= Len(e) /\ e[i + 1].k = "num"
    THEN SkipWS(e, i + 2) ELSE 0

\* r"\[=ERROR=\]\s+\d+\.\d+\s*" matched at position i: the position after
\* the match, 0 for no match.
StampMatch(e, i) ==
    LET j == SkipWS(e, i + 1)
    IN  IF e[i] = ErrorTag /\ j > i + 1 /\ j <= Len(e) /\ e[j].k = "num"
        THEN SkipWS(e, j + 1) ELSE 0

\* The last position before p that holds neither white space nor a number
\* (0 if none): the only place a match that covers p can start.
RECURSIVE Anchor(_, _)
Anchor(e, p) ==
    IF p <= 1 THEN 0
    ELSE IF e[p - 1].k \in {"ws", "num"} THEN Anchor(e, p - 1)
    ELSE p - 1

\* re.sub(r"\[=ERROR=\]\s+\d+\.\d+\s*", "[=ERROR=] ", e): every match is
\* replaced, what lies outside the matches is kept.
SubStamps(e) ==
    LET InMatch(p) == Anchor(e, p) # 0 /\ StampMatch(e, Anchor(e, p)) > p
    IN  Flatten([p \in DOMAIN e |->
                   IF StampMatch(e, p) # 0 THEN << ErrorTag, WS >>
                   ELSE IF InMatch(p) THEN << >>
                   ELSE << e[p] >>])

\* re.sub(r"^.*?\[=ERROR=\]\s*", "", cleaned)
DropThroughTag(e) ==
    IF \E i \in DOMAIN e : e[i] = ErrorTag
    THEN LET first == CHOOSE i \in DOMAIN e :
                        e[i] = ErrorTag /\ \A j \in 1..(i - 1) : e[j] # ErrorTag
         IN  SubSeq(e, SkipWS(e, first + 1), Len(e))
    ELSE e

\* str.strip()
strip(e) == LET r == rstrip(e) IN SubSeq(r, SkipWS(r, 1), Len(r))

\* The cleaned text of a captured error line.
Cleaned(e) == Chars(strip(DropThroughTag(SubStamps(e))))

\* The key of a captured line: None when nothing is left of it.
ErrorKey(e) ==
    LET cleaned == Cleaned(e)
    IN  IF cleaned # << >> THEN Some(truncate(cleaned, SAMPLE_WIDTH)) ELSE None

\* Counter addition
MergeCounts(a, b) ==
    [k \in DOMAIN a \cup DOMAIN b |-> CounterGet(a, k) + CounterGet(b, k)]

\* error_counts[key] += 1 for every captured line with a key, counted half
\* by half
RECURSIVE CountKeys(_)
CountKeys(lines) ==
    IF lines = << >> THEN EmptyMap
    ELSE IF Len(lines) = 1
    THEN LET key == ErrorKey(lines[1])
         IN  IF key = None THEN EmptyMap ELSE (Val(key) :> 1)
    ELSE LET half == Len(lines) \div 2
         IN  MergeCounts(CountKeys(SubSeq(lines, 1, half)),
                         CountKeys(SubSeq(lines, half + 1, Len(lines))))

error_counts(s) == CountKeys(s.error_lines)

(***************************************************************************)
(* Logs of error lines for the error summary.                               *)
(***************************************************************************)
MaxDedupeLines == 3

\* "[=ERROR=] <n>.00 " and the characters of a message.
ErrorLine(n, message) ==
    << ErrorTag, WS, Stamp(n), WS >> \o [i \in DOMAIN message |-> Ch(message[i])]

\* A message of 121 characters, and one that differs from it in character 117.
LongMessage(last) == Text(0, 120) \o << last >>
OtherLongMessage ==
    [i \in 1..121 |-> IF i = 117 THEN "x" ELSE LongMessage("a")[i]]

DedupeCorpus ==
    { ErrorLine(1, << "a", "b" >>), ErrorLine(2, << "a", "b" >>),
      << ErrorTag, WS, Stamp(1) >>, << ErrorTag, WS, Stamp(2), WS >>,
      << Ch("x"), WS, ErrorTag, WS, Ch("a"), Ch("b") >>,
      ErrorLine(1, LongMessage("a")), ErrorLine(2, LongMessage("b")),
      ErrorLine(1, OtherLongMessage) }

ReadDedupe ==
    \E line \in DedupeCorpus : Len(fh) < MaxDedupeLines /\ ReadLine(line)

InitDedupe == InitWith({0})

NextDedupe == ReadDedupe \/ Report

SpecDedupe == InitDedupe /\ [][NextDedupe]_vars

\* Position i of a line holds the timestamp that follows the [=ERROR=] tag.
StampAfterTag(e, i) ==
    /\ e[i].k = "num"
    /\ \E k \in 1..(i - 2) :
         e[k] = ErrorTag /\ \A j \in (k + 1)..(i - 1) : e[j].k = "ws"

\* Two lines identical except for the timestamp embedded after the tag.
SameButStamp(a, b) ==
    /\ Len(a) = Len(b)
    /\ \A i \in DOMAIN a :
         a[i] = b[i] \/ (StampAfterTag(a, i) /\ StampAfterTag(b, i))

\* Two texts differ within their first 117 characters.
DiffersEarly(x, y) ==
    \E i \in 1..117 :
        \/ (i <= Len(x)) # (i <= Len(y))
        \/ (i <= Len(x) /\ i <= Len(y) /\ x[i] # y[i])

Captured == DOMAIN st.error_lines
SuchLines(i) == { j \in Captured : SameButStamp(st.error_lines[i], st.error_lines[j]) }

\* The cleaned texts of the captured lines, and the key of a text.
RECURSIVE CleanedTexts(_)
CleanedTexts(lines) ==
    IF lines = << >> THEN << >>
    ELSE Append(CleanedTexts(SubSeq(lines, 1, Len(lines) - 1)), Cleaned(lines[Len(lines)]))
KeyOfText(text) == truncate(text, SAMPLE_WIDTH)

\* C19: captured error lines that are identical except for the timestamp
\* embedded after the [=ERROR=] tag normalize to the same key and form one
\* group whose count is the number of such lines; lines whose normalized text
\* differs within the first 117 characters form different groups.
C19_OneGroupPerMessage ==
    pc = "done" =>
      LET texts == CleanedTexts(st.error_lines)
          groups == error_counts(st)
      IN  /\ \A i \in Captured :
               /\ \A j \in SuchLines(i) : KeyOfText(texts[j]) = KeyOfText(texts[i])
               /\ KeyOfText(texts[i]) \in DOMAIN groups
               /\ CounterGet(groups, KeyOfText(texts[i])) = Cardinality(SuchLines(i))
          /\ \A i, j \in Captured :
               DiffersEarly(texts[i], texts[j]) => KeyOfText(texts[i]) # KeyOfText(texts[j])

\* C19, amended: captured error lines with text left after tag and timestamp
\* that are identical except for that timestamp normalize to the same key and
\* fall into one group, whose count is the number of captured lines with that
\* key; a line with nothing after tag and timestamp forms no group; texts
\* that differ within the first 117 characters form different groups.
C19_OneGroupPerNonEmptyMessage ==
    pc = "done" =>
      LET texts == CleanedTexts(st.error_lines)
          groups == error_counts(st)
          with_text == { i \in Captured : texts[i] # << >> }
      IN  /\ \A i \in with_text :
               /\ \A j \in SuchLines(i) : KeyOfText(texts[j]) = KeyOfText(texts[i])
               /\ KeyOfText(texts[i]) \in DOMAIN groups
               /\ groups[KeyOfText(texts[i])]
                    = Cardinality({ j \in with_text : KeyOfText(texts[j]) = KeyOfText(texts[i]) })
               /\ groups[KeyOfText(texts[i])] >= Cardinality(SuchLines(i))
          /\ DOMAIN groups = { KeyOfText(texts[i]) : i \in with_text }
          /\ \A i, j \in with_text :
               DiffersEarly(texts[i], texts[j]) => KeyOfText(texts[i]) # KeyOfText(texts[j])

\* Two lines that differ in the timestamp alone in one group of count 2, next
\* to a long line whose key is cut to the width.
C19_Witness ==
    /\ pc = "done"
    /\ Len(st.error_lines) = 3
    /\ st.error_lines[1] # st.error_lines[2]
    /\ SameButStamp(st.error_lines[1], st.error_lines[2])
    /\ Cleaned(st.error_lines[1]) = << "a", "b" >>
    /\ Len(Cleaned(st.error_lines[3])) > SAMPLE_WIDTH
    /\ error_counts(st) = (<< "a", "b" >> :> 2)
                          @@ (KeyOfText(Cleaned(st.error_lines[3])) :> 1)
(***************************************************************************)
(* False errors: logs with benign [=ERROR=] lines before, while and after  *)
(* the error buffer fills.  The first DenyHead lines and the lines after   *)
(* line DenyFlood are free, the lines between repeat the line before them. *)
(***************************************************************************)
MaxDenyLines == 203
DenyHead == 2
DenyFlood == 201

ScriptError == << ErrorTag, WS, Lit("Script error in md.Setup") >>
RegisteredEvent == << ErrorTag, WS, Lit("Registered event"), Ch(":"), WS, Ch("F") >>
MenuInit == << ErrorTag, WS, Ch("M"), WS, Lit("Init") >>
QuotedEvent == << Ch(">"), ErrorTag, WS, Lit("Registered event") >>

DenyCorpus == { ScriptError, RegisteredEvent, MenuInit, QuotedEvent }

DenyAllows(lines, line) ==
    IF Len(lines) < DenyHead \/ Len(lines) >= DenyFlood THEN TRUE
    ELSE line = lines[Len(lines)]

ReadDeny ==
    \E line \in DenyCorpus :
        /\ Len(fh) < MaxDenyLines
        /\ DenyAllows(fh, line)
        /\ ReadLine(line)

InitDeny == InitWith({0})

NextDeny == ReadDeny \/ Report

SpecDeny == InitDeny /\ [][NextDeny]_vars

\* A line of the log that carries the tag and matches the denylist, and one
\* that carries the tag and matches no pattern of it.
Benign(line) == RE_ERROR_LINE(rstrip(line)) /\ RE_FALSE_ERROR(rstrip(line))
RealError(line) == RE_ERROR_LINE(rstrip(line)) /\ ~RE_FALSE_ERROR(rstrip(line))

RangeOf(seq) == { seq[i] : i \in DOMAIN seq }

\* The lines the error buffer has to hold: the first 200 real errors.
Admitted(lines) == FirstN(SelectSeq(Stripped(lines), LAMBDA l : RealError(l)), MAX_ERROR_LINES)

RECURSIVE SumOver(_, _)
SumOver(S, admitted) ==
    IF S = {} THEN 0
    ELSE LET l == CHOOSE x \in S : TRUE
         IN  Count(l, admitted) + SumOver(S \ {l}, admitted)

\* No benign line is in the buffer.
NoBenignCaptured ==
    \A i \in DOMAIN fh : Benign(fh[i]) => rstrip(fh[i]) \notin RangeOf(st.error_lines)

\* The groups are those of the admitted lines alone.
GroupsFromAdmitted ==
    pc = "done" =>
      LET admitted == Admitted(fh)
          distinct == RangeOf(admitted)
          groups == error_counts(st)
          Key(l) == KeyOfText(Cleaned(l))
      IN  /\ DOMAIN groups = { Key(l) : l \in { x \in distinct : Cleaned(x) # << >> } }
          /\ \A k \in DOMAIN groups :
               groups[k] = SumOver({ l \in distinct : Key(l) = k }, admitted)

\* What reading one line does to the buffer.
DenyStep ==
    Len(fh') = Len(fh) + 1 =>
      LET line == fh'[Len(fh')]
      IN  /\ Benign(line) => st'.error_lines = st.error_lines
          /\ RealError(line) /\ Len(st.error_lines) < MAX_ERROR_LINES =>
               st'.error_lines = Append(st.error_lines, rstrip(line))

\* C18: a line with the [=ERROR=] tag that matches a pattern of the benign
\* denylist is never appended to the error buffer and contributes to no
\* deduplicated error group, whatever the fill level of the buffer; a tagged
\* line matching no denylist pattern is appended while the buffer has room.
C18_FalseErrorsSuppressed ==
    [](NoBenignCaptured /\ GroupsFromAdmitted) /\ [][DenyStep]_vars

\* A benign line read while the buffer was empty and another after it had
\* filled with 200 copies of a tagged line that quotes a benign text without
\* matching the denylist: the report has the one group of that line.
C18_Witness ==
    /\ pc = "done"
    /\ Len(fh) = MaxDenyLines
    /\ Benign(fh[1])
    /\ Len(st.error_lines) = MAX_ERROR_LINES
    /\ Benign(fh[Len(fh)])
    /\ RealError(fh[Len(fh) - 1])
    /\ rstrip(QuotedEvent) \in RangeOf(st.error_lines)
    /\ error_counts(st) = (KeyOfText(Cleaned(rstrip(QuotedEvent))) :> MAX_ERROR_LINES)
    /\ KeyOfText(Cleaned(rstrip(fh[1]))) \notin DOMAIN error_counts(st)

(***************************************************************************)
(* extract_ship_id on its own: lines of up to MaxIdTokens fragments, every *)
(* form of a ship ID with either of two IDs, and text without an ID.       *)
(***************************************************************************)
MaxIdTokens == 3

IdTokens ==
    { SidGTAI(ShipA), SidGTAI(ShipB), SidParen(ShipA), SidParen(ShipB),
      SidAttr(ShipA), SidAttr(ShipB), SidBare(ShipA), SidBare(ShipB),
      Lit("GT_No_Trade_Found") }

IdLines == UNION { [1..n -> IdTokens] : n \in 0..MaxIdTokens }

InitShipId ==
    /\ fh = << >> /\ tail_size = 0 /\ pc = "loop"
    /\ st = EmptyState /\ rpt = << >> /\ runs = << >>
    /\ call \in { [text |-> line] : line \in IdLines }
    /\ ret = None

\* extract_ship_id is called and returns.
CallExtractShipId ==
    /\ ret = None
    /\ ret' = Some(extract_ship_id(call.text))
    /\ UNCHANGED << fh, tail_size, pc, st, rpt, runs, call >>

NextShipId == CallExtractShipId

SpecShipId == InitShipId /\ [][NextShipId]_vars

\* The fragments of a line in which the form of a given priority occurs:
\* 1 the [GT-AI] form, 2 the parenthesized form, 3 the Ship= attribute,
\* 4 the bare pattern, which is part of every form.
FormKinds(priority) ==
    CASE priority = 1 -> {"sid_gtai"}
      [] priority = 2 -> {"sid_paren"}
      [] priority = 3 -> {"sid_attr"}
      [] OTHER -> {"sid_gtai", "sid_paren", "sid_attr", "sid_bare"}
Occurrences(line, priority) == { i \in DOMAIN line : line[i].k \in FormKinds(priority) }
FormsPresent(line) == { priority \in 1..4 : Occurrences(line, priority) # {} }

\* C21: extract_ship_id returns at most one ship ID per line, taken from the
\* highest-priority form present in the line in the order [GT-AI]-tagged,
\* parenthesized, Ship= attribute, bare pattern, even when a lower-priority
\* form with a different ID occurs earlier in the line; it returns None
\* exactly when no form is present.
C21_ShipIdByPriority ==
    ret # None =>
      LET line == call.text
          sid == Val(ret)
          present == FormsPresent(line)
      IN  /\ Len(sid) <= 1
          /\ IsNone(sid) <=> present = {}
          /\ present # {} =>
               LET best == CHOOSE p \in present : \A q \in present : p <= q
                   at == CHOOSE i \in Occurrences(line, best) :
                            \A j \in Occurrences(line, best) : i <= j
               IN  sid = Some(line[at].s)

\* "ABC-002 Ship=ABC-002 (ABC-001)": the parenthesized ID is returned although
\* the bare and the attribute form come first with another ID.
C21_Witness ==
    /\ ret # None
    /\ call.text = << SidBare(ShipB), SidAttr(ShipB), SidParen(ShipA) >>
    /\ Val(ret) = Some(ShipA)

(***************************************************************************)
(* Lines outside the mod: event texts without the "[GT-" tag and without   *)
(* a GT_ fragment, next to lines that carry one.                            *)
(***************************************************************************)
MaxSkipLines == 3

SkipCorpus ==
    { << TS(1), SidParen(ShipA), Lit("MD system response timeout"), WS >>,
      << TS(2), SidParen(ShipB), BlockMD(<< "9", "0" >>, << "1", "0", "0" >>) >>,
      << SidAttr(ShipA), Home2("Argon Prime"), Lit("Ship destruction ignored") >>,
      << TS(2), Lit("Created BUY trade order"), SidParen(ShipA),
         Lit("ALL 3 trades were rejected"), Lit("BEST TRADE SELECTED:") >>,
      << SidParen(ShipB), CapSkip(<< "5" >>), Lit("CRITICAL"), Lit("[=ERROR=]") >>,
      << TS(1), Lit("[GT-Trade]"), SidParen(ShipA), Lit("MD system response timeout") >>,
      << TS(3), SidGTAI(ShipB), BlockMD(<< "9", "0" >>, << "1", "0", "0" >>) >>,
      << TS(3), SidParen(ShipA), Lit("GT_No_Trade_Found") >> }

ReadSkip == \E line \in SkipCorpus : Len(fh) < MaxSkipLines /\ ReadLine(line)

InitSkip == InitWith({0})

NextSkip == ReadSkip \/ Report

SpecSkip == InitSkip /\ [][NextSkip]_vars

\* What an iteration may change for any line: the line count, the timestamp
\* state, the sample buffers and the tail buffer.
AnyLineFields ==
    {"total_lines", "first_ts", "last_ts", "ops_per_ts",
     "error_lines", "prop_lookup_fails", "critical_lines", "log_tail"}
\* Everything else: the GT line count, the ship-ID and home-sector sets, the
\* event counters, the request and terminal sets, the funds logs and the
\* recent_* counters.
GTFields(s) == [f \in (DOMAIN s) \ AnyLineFields |-> s[f]]

\* Event patterns that a line can match without being mod-relevant.
MatchesEvent(stripped) ==
    \/ TerminalWithTimeout(stripped) \/ RE_ALL_REJECTED(stripped)
    \/ RE_BEST_TRADE_SEL(stripped) \/ RE_THREAT(stripped)
    \/ FundsMatches(stripped) > 0

SkippedStep ==
    (Len(fh') = Len(fh) + 1 /\ ~ModRelevant(rstrip(fh'[Len(fh')]))) =>
        /\ GTFields(st') = GTFields(st)
        /\ st'.total_lines = st.total_lines + 1

\* C22: a line that carries neither the "[GT-" tag nor one of the fragments
\* GT_Find_, GT_No_Trade, GT_Trade leaves unchanged the GT line count, the
\* ship-ID and home-sector sets, every event counter, ships_with_request,
\* ships_with_terminal, the funds logs and every recent_* counter, even when
\* its text matches an event pattern; only total lines, timestamp state, the
\* sample buffers and the tail buffer may change.
C22_IrrelevantLinesSkipped == [][SkippedStep]_vars

\* After a mod-relevant timeout line every line of the log that matches an
\* event pattern without being mod-relevant has been read: one timeout, one
\* GT line and one ship are counted, while timestamp, samples and tail moved.
C22_Witness ==
    /\ pc = "loop"
    /\ Len(fh) = 3
    /\ ModRelevant(rstrip(fh[1])) /\ RE_TIMEOUT(rstrip(fh[1]))
    /\ \A i \in 2..3 : ~ModRelevant(rstrip(fh[i])) /\ MatchesEvent(rstrip(fh[i]))
    /\ RE_BLOCKED_EARLY_REJECT(rstrip(fh[2])) # 0
    /\ RE_CRITICAL(rstrip(fh[3]))
    /\ st.gt_lines = 1 /\ st.timeout_count = 1 /\ st.ship_ids = {ShipA}
    /\ st.block_early_reject_count = 0 /\ st.ship_money_cap_skip_count = 0
    /\ st.total_lines = 3 /\ st.last_ts = 2
    /\ Len(st.critical_lines) = 1 /\ Len(st.log_tail) = 3

(***************************************************************************)
(* Missing and out-of-order timestamps: lines with a late, an early and a  *)
(* middle timestamp, and mod-relevant lines without a timestamp marker.    *)
(***************************************************************************)
MaxTimeLines == 3

TimeCorpus ==
    { << TS(500), SidGTAI(ShipA), Lit("SENDING GT_Find_Trade") >>,
      << TS(100), SidGTAI(ShipA), Lit("GT_No_Trade_Found") >>,
      << TS(400), SidGTAI(ShipB), Lit("MD system response timeout") >>,
      << SidGTAI(ShipA), Lit("GT_No_Trade_Found"), WS >>,
      << SidGTAI(ShipB), Lit("SENDING GT_Find_Sell"), Lit("MD system response timeout") >>,
      << Lit("[GT-Trade]"), SidParen(ShipB), Lit("ALL 3 trades were rejected"),
         BlockMD(<< "9", "0" >>, << "1", "0", "0" >>) >>,
      << Lit("[GT-Trade]"), Lit("Created BUY trade order"), SidParen(ShipA) >> }

ReadTime == \E line \in TimeCorpus : Len(fh) < MaxTimeLines /\ ReadLine(line)

InitTime == InitWith({0})

NextTime == ReadTime \/ Report

SpecTime == InitTime /\ [][NextTime]_vars

\* The largest timestamp of the lines read, 0.0 when no line had one.
LargestTs(lines) ==
    IF TimestampsOf(lines) = {} THEN 0
    ELSE CHOOSE t \in TimestampsOf(lines) : \A u \in TimestampsOf(lines) : u <= t

RunningMaxIsLargest == st.last_ts = LargestTs(fh)

By(cond) == IF cond THEN 1 ELSE 0

\* A step that reads a mod-relevant line without a timestamp marker.
UntimedStep ==
    (Len(fh') = Len(fh) + 1 /\ IsNone(LineTs(rstrip(fh'[Len(fh')])))) =>
      LET l == rstrip(fh'[Len(fh')])
          sid == extract_ship_id(l)
      IN  /\ st'.first_ts = st.first_ts
          /\ st'.last_ts = st.last_ts
          /\ st'.ops_per_ts = st.ops_per_ts
          /\ st'.recent_no_trade = st.recent_no_trade
          /\ st'.recent_timeout = st.recent_timeout
          /\ st'.recent_rejected = st.recent_rejected
          /\ st'.recent_money_blocked = st.recent_money_blocked
          /\ ModRelevant(l) =>
               /\ st'.request_count = st.request_count + By(RE_REQUEST(l))
               /\ st'.order_count = st.order_count + By(RE_ORDER_CREATED(l))
               /\ st'.no_trade_count = st.no_trade_count + By(RE_NO_TRADE(l))
               /\ st'.timeout_count = st.timeout_count + By(RE_TIMEOUT(l))
               /\ st'.all_rejected_count = st.all_rejected_count + By(RE_ALL_REJECTED(l))
               /\ st'.block_early_reject_count
                    = st.block_early_reject_count + By(RE_BLOCKED_EARLY_REJECT(l) # 0)
               /\ (RE_REQUEST(l) /\ ~IsNone(sid)) =>
                    Val(sid) \in DOMAIN st'.ships_with_request
               /\ ((RE_ORDER_CREATED(l) \/ RE_NO_TRADE(l)) /\ ~IsNone(sid)) =>
                    Val(sid) \in st'.ships_with_terminal

NeverDecreases == st'.last_ts >= st.last_ts

\* C23: a line with no timestamp marker leaves first_ts, the running maximum
\* and ops_per_ts unchanged and increments no recent_* counter, while it
\* still increments its category counters and updates the ship request and
\* terminal sets; lines with decreasing timestamps never decrease the running
\* maximum, which in every state equals the largest timestamp seen so far
\* (0.0 before any).
C23_TimestampsOptionalAndUnordered ==
    []RunningMaxIsLargest /\ [][UntimedStep /\ NeverDecreases]_vars

\* Timestamps 500 then 100, then a no-trade line of the same ship without a
\* timestamp: the maximum stays 500, both no-trade lines are counted, the
\* ship has a terminal response, and nothing is recent.
C23_Witness ==
    /\ pc = "loop"
    /\ Len(fh) = 3
    /\ LineTs(rstrip(fh[1])) = Some(500)
    /\ LineTs(rstrip(fh[2])) = Some(100)
    /\ IsNone(LineTs(rstrip(fh[3]))) /\ RE_NO_TRADE(rstrip(fh[3]))
    /\ st.last_ts = 500 /\ st.first_ts = Some(500)
    /\ DOMAIN st.ops_per_ts = {100, 500}
    /\ st.no_trade_count = 2
    /\ ShipA \in st.ships_with_terminal
    /\ st.recent_no_trade = EmptyMap

(***************************************************************************)
(* The log tail: passes with tail_size 0 (keep all) and with small limits  *)
(* over logs longer than the limit.                                         *)
(***************************************************************************)
MaxTailLines == 4

TailSizes == {0, 1, 2}

TailCorpus ==
    { << TS(1), SidGTAI(ShipA), Lit("SENDING GT_Find_Trade") >>,
      << TS(2), Lit("[GT-Trade]"), SidParen(ShipA), Lit("Created BUY trade order"), WS >>,
      << Lit("[=ERROR=]"), Lit("Script error in md.Setup"), WS, WS >>,
      << TS(2), Lit("MD system response timeout") >> }

ReadTail == \E line \in TailCorpus : Len(fh) < MaxTailLines /\ ReadLine(line)

InitTail == InitWith(TailSizes)

NextTail == ReadTail \/ Report

SpecTail == InitTail /\ [][NextTail]_vars

\* The last n elements of a sequence (all of them when it has no more).
LastN(seq, n) == IF Len(seq) <= n THEN seq ELSE SubSeq(seq, Len(seq) - n + 1, Len(seq))

\* C24: every input line, mod-relevant or not, is appended to the tail buffer
\* in stream order; with tail_size = N > 0 the buffer holds, after each line,
\* exactly the last min(N, lines read) lines, the oldest evicted first, and
\* with tail_size = 0 it holds every line read.
C24_TailHoldsLastLines ==
    /\ tail_size = 0 => st.log_tail = Stripped(fh)
    /\ tail_size > 0 =>
         /\ Len(st.log_tail) = IF Len(fh) < tail_size THEN Len(fh) ELSE tail_size
         /\ st.log_tail = LastN(Stripped(fh), tail_size)

\* Limit 2, four lines read: the buffer holds the third and the fourth, one
\* of them not mod-relevant, and the first line is gone.
C24_Witness ==
    /\ tail_size = 2
    /\ Len(fh) = 4
    /\ st.log_tail = << rstrip(fh[3]), rstrip(fh[4]) >>
    /\ ~ModRelevant(rstrip(fh[3]))
    /\ ModRelevant(rstrip(fh[4])) /\ fh[4] # rstrip(fh[4])
    /\ fh[1] \notin {fh[3], fh[4]} /\ fh[2] \notin {fh[3], fh[4]}

(***************************************************************************)
(* Critical lines: markers in either case, with and without the mod tag,   *)
(* on mod-relevant lines and on lines that are also errors.                 *)
(***************************************************************************)
MaxCriticalLogLines == 3

CriticalCorpus ==
    { << Lit("[GT-Threat]"), Lit("CRITICAL THREAT"), SidParen(ShipA) >>,
      << TS(1), Lit("EXCEPTION"), WS >>,
      << Lit("[=ERROR=]"), Lit("Property lookup failed"), Lit("critical") >>,
      << Lit("GT_No_Trade_Found"), SidParen(ShipB), Lit("Exception") >>,
      << SidGTAI(ShipA), Lit("CRITICAL") >>,
      << Lit("[=ERROR=]"), Lit("Script error in md.Setup") >> }

ReadCritical ==
    \E line \in CriticalCorpus : Len(fh) < MaxCriticalLogLines /\ ReadLine(line)

InitCritical == InitWith({0})

NextCritical == ReadCritical \/ Report

SpecCritical == InitCritical /\ [][NextCritical]_vars

\* A marker and no mod tag.
Qualifies(line) == RE_CRITICAL(rstrip(line)) /\ ~RE_GT_TAG(rstrip(line))

CriticalAreQualifying ==
    /\ st.critical_lines = SelectSeq(Stripped(fh), LAMBDA l : Qualifies(l))
    /\ \A i \in DOMAIN st.critical_lines : ~RE_GT_TAG(st.critical_lines[i])

\* What reading one line does: a qualifying line is stored, whatever else it
\* is; a tagged line is not, and is still counted as the event it is.
CriticalStep ==
    Len(fh') = Len(fh) + 1 =>
      LET line == fh'[Len(fh')]
          l == rstrip(line)
      IN  /\ st'.critical_lines =
               IF Qualifies(line) THEN Append(st.critical_lines, l) ELSE st.critical_lines
          /\ RE_GT_TAG(l) /\ RE_THREAT(l) =>
               st'.threat_event_count = st.threat_event_count + 1
          /\ Qualifies(line) =>
               /\ ModRelevant(l) => st'.gt_lines = st.gt_lines + 1
               /\ RE_ERROR_LINE(l) => st'.error_lines = Append(st.error_lines, l)
               /\ RE_PROP_LOOKUP(l) => st'.prop_lookup_fails = Append(st.prop_lookup_fails, l)

\* C25: a line qualifies as critical exactly when it contains a CRITICAL or
\* EXCEPTION marker in either case and does not contain the tag "[GT-"; this
\* is evaluated for every line, independently of mod-relevance and of the
\* error and property-lookup classifications, so no mod-tagged line (such as
\* a [GT-Threat] CRITICAL THREAT line counted as a threat) is ever stored as
\* a critical line.
C25_CriticalExcludesModLines == []CriticalAreQualifying /\ [][CriticalStep]_vars

\* A [GT-Threat] CRITICAL THREAT line counted as a threat and not stored, a
\* mod-relevant line without the tag stored and counted, and a line stored
\* as error, as property-lookup failure and as critical.
C25_Witness ==
    /\ Len(fh) = 3
    /\ RE_GT_TAG(fh[1]) /\ RE_CRITICAL(fh[1]) /\ st.threat_event_count = 1
    /\ ModRelevant(fh[2]) /\ Qualifies(fh[2]) /\ st.no_trade_count = 1
    /\ Qualifies(fh[3]) /\ RE_ERROR_LINE(fh[3]) /\ RE_PROP_LOOKUP(fh[3])
    /\ st.critical_lines = << fh[2], fh[3] >>
    /\ st.error_lines = << fh[3] >> /\ st.prop_lookup_fails = << fh[3] >>
    /\ st.gt_lines = 2

(***************************************************************************)
(* Requests after the last terminal response: request, order-created and   *)
(* no-trade lines of two ships in any order, an order-created line without *)
(* the mod tag, and one that names two ships.                               *)
(***************************************************************************)
MaxStallLines == 4

StallCorpus ==
    { << TS(1), SidGTAI(ShipA), Lit("SENDING GT_Find_Trade") >>,
      << SidGTAI(ShipB), Lit("SENDING GT_Find_Sell") >>,
      << TS(2), Lit("[GT-Trade]"), SidParen(ShipA), Lit("Created BUY trade order") >>,
      << SidParen(ShipB), Lit("GT_No_Trade_Found") >>,
      << TS(2), Lit("Created SELL trade order"), SidParen(ShipA) >>,
      << SidGTAI(ShipA), Lit("Created BUY trade order"), SidParen(ShipB) >> }

ReadStall == \E line \in StallCorpus : Len(fh) < MaxStallLines /\ ReadLine(line)

InitStall == InitWith({0})

NextStall == ReadStall \/ Report

SpecStall == InitStall /\ [][NextStall]_vars

\* The ship IDs that appear on a line, in any form.
IdsOn(line) ==
    { line[i].s : i \in { j \in DOMAIN line :
                            line[j].k \in {"sid_gtai", "sid_paren", "sid_attr", "sid_bare"} } }
IsTerminalLine(line) == RE_ORDER_CREATED(rstrip(line)) \/ RE_NO_TRADE(rstrip(line))

\* The ships the report calls stalled: listed under a WARN or FAIL result.
ReportedStalled == IF TheResult("stalled").status = "PASS" THEN {} ELSE Stalled(st)

\* C26: once a ship ID has appeared on any order-created or no-trade-found
\* line it is never reported as stalled at end-of-stream, however many
\* request lines for that ship follow its last terminal response.
C26_TerminalShipNeverStalled ==
    pc = "done" =>
      \A i \in DOMAIN fh :
          IsTerminalLine(fh[i]) => IdsOn(fh[i]) \cap ReportedStalled = {}

\* C26, amended: once a ship ID has been extracted from a mod-relevant
\* order-created or no-trade-found line it is never reported as stalled at
\* end-of-stream, however many request lines for that ship follow its last
\* terminal response.
C26_ExtractedTerminalShipNeverStalled ==
    pc = "done" =>
      /\ \A i \in DOMAIN fh :
           (IsTerminalLine(fh[i]) /\ ModRelevant(rstrip(fh[i]))
              /\ ~IsNone(extract_ship_id(rstrip(fh[i])))) =>
                 Val(extract_ship_id(rstrip(fh[i]))) \notin ReportedStalled
      /\ TheResult("stalled").n = Cardinality(ReportedStalled)

\* A request, the order of that ship, and two more requests of it after the
\* order: no ship is stalled.
C26_Witness ==
    /\ pc = "done"
    /\ Len(fh) = 4
    /\ RE_ORDER_CREATED(fh[2]) /\ ModRelevant(fh[2]) /\ extract_ship_id(fh[2]) = Some(ShipA)
    /\ \A i \in {1, 3, 4} : RE_REQUEST(fh[i]) /\ extract_ship_id(fh[i]) = Some(ShipA)
    /\ DOMAIN st.ships_with_request = {ShipA}
    /\ ReportedStalled = {}
    /\ TheResult("stalled").msg = "No stalled ships detected"

(***************************************************************************)
(* The funds block window: BLOCKED-trade lines with a late and an early    *)
(* timestamp and without one, among other timestamped lines.                *)
(***************************************************************************)
MaxWindowLines == 3

WindowCorpus ==
    { << TS(500), SidGTAI(ShipA), BlockMD(<< "9", "0" >>, << "1", "0", "0" >>) >>,
      << TS(100), SidGTAI(ShipB), BlockAI(<< "8", "0" >>, << "1", "0", "0" >>) >>,
      << SidGTAI(ShipA), BlockMD(<< "7", "0" >>, << "1", "0", "0" >>), WS >>,
      << TS(50), Lit("[GT-Trade]"), Lit("executing trade") >>,
      << TS(600), Lit("MD system response timeout") >> }

ReadWindow == \E line \in WindowCorpus : Len(fh) < MaxWindowLines /\ ReadLine(line)

InitWindow == InitWith({0})

NextWindow == ReadWindow \/ Report

SpecWindow == InitWindow /\ [][NextWindow]_vars

\* duration_blocked (section 5) and duration (section 4) as the report
\* computes them.
duration_blocked(s) == s.last_funds_block_ts - Val(s.first_funds_block_ts)
duration(s) == IF ~IsNone(s.first_ts) THEN s.last_ts - Val(s.first_ts) ELSE 0

\* C27: for every line sequence, out-of-order timestamps included, whenever
\* first_funds_block_ts is set, last_funds_block_ts >= first_funds_block_ts,
\* so the reported block-window duration is never negative; likewise the
\* reported game-time duration last_ts - first_ts is never negative.
C27_WindowsWellFormed ==
    /\ ~IsNone(st.first_funds_block_ts) =>
         /\ st.last_funds_block_ts >= Val(st.first_funds_block_ts)
         /\ duration_blocked(st) >= 0
    /\ duration(st) >= 0

(***************************************************************************)
(* Consistency of the accumulators                                          *)
(***************************************************************************)
RecentWithinTotals ==
    /\ SumValues(st.recent_no_trade) <= st.no_trade_count
    /\ SumValues(st.recent_timeout) <= st.timeout_count
    /\ SumValues(st.recent_rejected) <= st.all_rejected_count
    /\ SumValues(st.recent_money_blocked)
         <= st.block_early_reject_count + st.block_auth_guard_count
            + st.early_money_gate_count + st.ship_money_cap_skip_count

KeysAreShips ==
    /\ DOMAIN st.ships_with_request \subseteq st.ship_ids
    /\ st.ships_with_terminal \subseteq st.ship_ids
    /\ DOMAIN st.funds_events_per_ship \subseteq st.ship_ids
    /\ DOMAIN st.recent_no_trade \subseteq st.ship_ids
    /\ DOMAIN st.recent_timeout \subseteq st.ship_ids
    /\ DOMAIN st.recent_rejected \subseteq st.ship_ids
    /\ DOMAIN st.recent_money_blocked \subseteq st.ship_ids

\* C28: in every state reached during the pass each recent_* counter sums to
\* at most the total of its event (recent_money_blocked to at most the sum
\* of the early-reject, auth-guard, early-gate and cap-skip counts), and the
\* keys of ships_with_request, ships_with_terminal, funds_events_per_ship
\* and of every recent_* map are ship IDs of ship_ids.
C28_RecentBoundedKeysKnown == RecentWithinTotals /\ KeysAreShips

\* Two no-trade lines of which one is recent, and a recent cap skip and a
\* recent timeout of the other ship.
C28_Witness ==
    /\ st.no_trade_count = 2 /\ SumValues(st.recent_no_trade) = 1
    /\ st.ship_money_cap_skip_count = 1 /\ st.recent_money_blocked = (ShipB :> 1)
    /\ st.ship_ids = {ShipA, ShipB}
    /\ st.ships_with_terminal = {ShipA}
    /\ DOMAIN st.funds_events_per_ship = {ShipB}
    /\ st.timeout_count = 1 /\ st.recent_timeout = (ShipB :> 1)

(***************************************************************************)
(* gt_log_utils.py: reconstruct_records.  A line is spelled out as for the *)
(* error summary: TS(n) is "[Scripts] n.00 ***" at the place where it       *)
(* stands, WS one white-space character, Lit("Context:") the context        *)
(* marker, Ch(c) one character.  Texts are token sequences; NL is the "\n" *)
(* that joins a continuation line to its record.                            *)
(***************************************************************************)
NL == Ch("\n")
Colon == Ch(":")

LogRecord(time, context, message, raw) ==
    [time |-> time, context |-> context, message |-> message, raw |-> raw]

\* Index of the first colon after position k (0 when there is none).
ColonAfter(line, k) ==
    IF \E j \in (k + 1)..Len(line) : line[j] = Colon
    THEN CHOOSE j \in (k + 1)..Len(line) :
           line[j] = Colon /\ \A i \in (k + 1)..(j - 1) : line[i] # Colon
    ELSE 0

\* Both formats begin "^\[Scripts\]\s+<time>\s+\*\*\*\s+": the marker at the
\* start of the line and white space after it.  The index of what follows
\* the white space, 0 when the line does not begin so.
AfterMarker(line) ==
    IF Len(line) >= 2 /\ line[1].k = "ts" /\ line[2].k = "ws" THEN SkipWS(line, 2) ELSE 0

\* RE_CONTEXT_LINE.match(line): "Context:<ctx>:\s+<msg>" after the marker,
\* ctx at least one character and without a colon.
RE_CONTEXT_LINE(line) ==
    LET k == AfterMarker(line)
        colon == IF k = 0 THEN 0 ELSE ColonAfter(line, k)
        m == SkipWS(line, colon + 1)
    IN  IF k # 0 /\ k <= Len(line) /\ line[k] = Lit("Context:")
           /\ colon > k + 1 /\ m > colon + 1
        THEN Some(LogRecord(line[1].n, strip(SubSeq(line, k + 1, colon - 1)),
                            SubSeq(line, m, Len(line)), line))
        ELSE None

\* RE_HEADER_LINE.match(line): anything after the marker.
RE_HEADER_LINE(line) ==
    LET k == AfterMarker(line)
    IN  IF k # 0
        THEN Some(LogRecord(line[1].n, << >>, SubSeq(line, k, Len(line)), line))
        ELSE None

\* (a variant that tries the header format first)
NewRecordHeaderFirst(line) ==
    IF RE_HEADER_LINE(line) # None THEN RE_HEADER_LINE(line) ELSE RE_CONTEXT_LINE(line)

\* The record a line starts: the context format first, then the header
\* format; None for a continuation line.
NewRecord(line) ==
    IF RE_CONTEXT_LINE(line) # None THEN RE_CONTEXT_LINE(line) ELSE RE_HEADER_LINE(line)

\* records and current after the loop has gone over `lines`.
RECURSIVE ReconstructLoop(_)
ReconstructLoop(lines) ==
    IF lines = << >> THEN [records |-> << >>, current |-> None]
    ELSE LET before == ReconstructLoop(SubSeq(lines, 1, Len(lines) - 1))
             line == lines[Len(lines)]
         IN  IF NewRecord(line) # None
             THEN [records |-> IF before.current # None
                               THEN Append(before.records, Val(before.current))
                               ELSE before.records,
                   current |-> NewRecord(line)]
             ELSE IF before.current # None
             THEN [before EXCEPT
                     !.current = Some([Val(@) EXCEPT !.message = @ \o << NL >> \o line,
                                                     !.raw = @ \o << NL >> \o line])]
             ELSE before

reconstruct_records(lines) ==
    LET after == ReconstructLoop(lines)
    IN  IF after.current # None THEN Append(after.records, Val(after.current))
        ELSE after.records

MaxRecordLines == 4

ContextLine ==   \* "[Scripts] 1.00 *** Context: a :  m"
    << TS(1), WS, Lit("Context:"), WS, Ch("a"), WS, Colon, WS, WS, Ch("m") >>
HeaderLine == << TS(2), WS, WS, Ch("h") >>
ContextLikeHeader ==   \* "[Scripts] 3.00 *** Context:b:x": no blank after the colon
    << TS(3), WS, Lit("Context:"), Ch("b"), Colon, Ch("x") >>
PlainLine == << Ch("k") >>
IndentedMarker == << WS, TS(4), WS, Ch("z") >>
BareMarker == << TS(5) >>

RecordCorpus ==
    { ContextLine, HeaderLine, ContextLikeHeader, PlainLine, IndentedMarker, BareMarker }

InitRecords ==
    /\ fh = << >> /\ tail_size = 0 /\ pc = "loop"
    /\ st = EmptyState /\ rpt = << >> /\ runs = << >>
    /\ call \in { [lines |-> lines] :
                    lines \in UNION { [1..n -> RecordCorpus] : n \in 0..MaxRecordLines } }
    /\ ret = None

\* reconstruct_records is called and returns.
CallReconstructRecords ==
    /\ ret = None
    /\ ret' = Some(reconstruct_records(call.lines))
    /\ UNCHANGED << fh, tail_size, pc, st, rpt, runs, call >>

NextRecords == CallReconstructRecords

SpecRecords == InitRecords /\ [][NextRecords]_vars

\* The lines that match the context or the header format.
Starts(lines) ==
    { i \in DOMAIN lines : RE_CONTEXT_LINE(lines[i]) # None \/ RE_HEADER_LINE(lines[i]) # None }
\* The k-th of them, and the end of the block of lines that begins there.
StartAt(lines, k) ==
    CHOOSE i \in Starts(lines) : Cardinality({ j \in Starts(lines) : j < i }) = k - 1
BlockEnd(lines, i) ==
    IF \E j \in Starts(lines) : j > i
    THEN (CHOOSE j \in Starts(lines) : j > i /\ \A h \in Starts(lines) : h > i => j <= h) - 1
    ELSE Len(lines)

\* The lines i+1 .. last, each preceded by "\n".
RECURSIVE Continuations(_, _, _)
Continuations(lines, i, last) ==
    IF i >= last THEN << >>
    ELSE << NL >> \o lines[i + 1] \o Continuations(lines, i + 1, last)

\* C29: reconstruct_records, for every line sequence: the number of records
\* equals the number of lines matching the context or header format; records
\* appear in the order of their starting lines; every continuation line is
\* appended to the message and raw text of the most recent preceding record
\* and to no other; continuation lines before the first matching line are
\* dropped; a line matching both formats is treated as a context line.
C29_RecordsFollowStarts ==
    ret # None =>
      LET lines == call.lines
          records == Val(ret)
      IN  /\ Len(records) = Cardinality(Starts(lines))
          /\ \A k \in DOMAIN records :
               LET i == StartAt(lines, k)
                   first == IF RE_CONTEXT_LINE(lines[i]) # None
                            THEN Val(RE_CONTEXT_LINE(lines[i]))
                            ELSE Val(RE_HEADER_LINE(lines[i]))
                   more == Continuations(lines, i, BlockEnd(lines, i))
               IN  /\ records[k].time = first.time
                   /\ records[k].context = first.context
                   /\ records[k].message = first.message \o more
                   /\ records[k].raw = lines[i] \o more

\* A plain line before any record is dropped; a line matching both formats
\* becomes a record with context "a" and message "m" and takes the two
\* continuation lines after it; a Context-like header has no context.
C29_Witness ==
    /\ ret # None
    /\ call.lines = << PlainLine, ContextLine, BareMarker, ContextLikeHeader >>
    /\ RE_HEADER_LINE(ContextLine) # None /\ RE_CONTEXT_LINE(ContextLine) # None
    /\ Len(Val(ret)) = 2
    /\ Val(ret)[1] = LogRecord(1, << Ch("a") >>, << Ch("m"), NL, TS(5) >>,
                               ContextLine \o << NL >> \o BareMarker)
    /\ Val(ret)[2].context = << >>
    /\ Val(ret)[2].message = << Lit("Context:"), Ch("b"), Colon, Ch("x") >>

=============================================================================
